---- MODULE Spec2Model ----
(***************************************************************************)
(* The JobTech API client of src/lib/jobApi.js: searchJobs, getJobById,    *)
(* isValidLogo and the helpers they use.  A call is a small process: it    *)
(* runs its synchronous prefix (searchJobs builds the query string), then  *)
(* waits for fetch, then, where the code awaits response.json(), for the   *)
(* body, and resolves.  JavaScript strings are TLA+ strings; JavaScript    *)
(* values that may have several types (the parsed JSON of a body) are      *)
(* records tagged with their type, [t |-> "number", n |-> 42].            *)
(*                                                                         *)
(* The components that call the client follow: SearchPage of               *)
(* src/pages/search.js, SearchForm of src/components/SearchForm.js and     *)
(* JobCard of src/components/JobCard.js, each with its React state, its    *)
(* effects and the requests it has in flight, and last the client with     *)
(* several calls in progress at once.  A step of a component is one run of *)
(* a handler or of the continuation of an await, together with the         *)
(* effects React runs for the state it changed.                            *)
(***************************************************************************)
EXTENDS Integers, Sequences, FiniteSets, TLC

VARIABLES
    pc,        \* position of the call: "idle", "awaitFetch", "awaitJson", "done"
    fn,        \* the function called: "none", "searchJobs", "getJobById", "isValidLogo"
    args,      \* its argument: the options object, the id, the image URL
    url,       \* the URL handed to fetch ("" before fetch is called)
    fetches,   \* number of fetch calls the call has made
    response,  \* the Response fetch resolved to (NoResponse before that)
    body,      \* the body response.json() read (NoBody before that)
    thrown,    \* the exception the call's try block caught (NoError if none)
    result,    \* what the returned promise settled to (Pending before that)
    \* SearchPage (src/pages/search.js)
    mounted,       \* the page has rendered and run its effects
    routerQuery,   \* router.query
    searchParams,  \* the searchParams prop
    jobs,          \* state of the page, as its useState calls name it
    totalJobs,
    pageError,     \* the state named error
    apiSources,
    loading,
    requests,      \* the searchAllJobs calls fetchJobs made: arguments and outcome
    \* SearchForm (src/components/SearchForm.js)
    formMounted,   \* the form has rendered and run its effect
    q,             \* state of the form, as its useState calls name it
    location,
    isRemote,
    isAbroad,
    useCurrentLocation,
    position,
    radius,
    apiChoice,
    suggestions,
    isLoading,
    timers,        \* the pending setTimeout callbacks: the q and apiChoice each closed over
    typeahead,     \* the getTypeaheadSuggestions calls made: arguments and outcome
    pushed,        \* the queries handed to router.push: none, or the last one
    \* JobCard (src/components/JobCard.js)
    cardMounted,   \* the card has rendered and run its effect
    job,           \* the job prop
    imgSrc,        \* state of the card
    probes,        \* the isValidLogo calls checkAndSetLogo made: URL and outcome
    \* Concurrent calls of the client (src/lib/jobApi.js)
    calls          \* the calls in progress, each with the variables of its own run

clientVars == <<pc, fn, args, url, fetches, response, body, thrown, result>>
pageVars == <<mounted, routerQuery, searchParams, jobs, totalJobs, pageError, apiSources,
              loading, requests>>
formVars == <<formMounted, q, location, isRemote, isAbroad, useCurrentLocation, position,
              radius, apiChoice, suggestions, isLoading, timers, typeahead, pushed>>
cardVars == <<cardMounted, job, imgSrc, probes>>
vars == <<clientVars, pageVars, formVars, cardVars, calls>>

----------------------------------------------------------------------------
(* Bounds of the model.                                                    *)

\* The caller supplies at most this many of the option fields.
MaxSuppliedFields == 2
\* limit and offset inputs lie within this distance of 0 and of each clamp edge.
MaxDelta == 2
\* fetchJobs runs at most this many times on one page.
MaxRequests == 2

----------------------------------------------------------------------------
(* Strings.                                                                *)

API_BASE_URL == "https://links.api.jobtechdev.se"

Digits == <<"0", "1", "2", "3", "4", "5", "6", "7", "8", "9">>
DigitChars == {Digits[i] : i \in 1..10}
UpperChars == {"A","B","C","D","E","F","G","H","I","J","K","L","M",
               "N","O","P","Q","R","S","T","U","V","W","X","Y","Z"}
LowerChars == {"a","b","c","d","e","f","g","h","i","j","k","l","m",
               "n","o","p","q","r","s","t","u","v","w","x","y","z"}
WhiteSpaceChars == {" ", "\t", "\n"}

\* String.prototype.trim: strips leading and trailing white space.
RECURSIVE TrimStart(_)
TrimStart(s) ==
    IF s = "" THEN ""
    ELSE IF Head(s) \in WhiteSpaceChars THEN TrimStart(Tail(s)) ELSE s

RECURSIVE TrimEnd(_)
TrimEnd(s) ==
    IF s = "" THEN ""
    ELSE IF SubSeq(s, Len(s), Len(s)) \in WhiteSpaceChars
         THEN TrimEnd(SubSeq(s, 1, Len(s) - 1))
         ELSE s

Trim(s) == TrimEnd(TrimStart(s))

\* String.prototype.includes / startsWith.
StartsWith(s, p) == Len(p) <= Len(s) /\ SubSeq(s, 1, Len(p)) = p
Includes(s, p) ==
    \E i \in 1..(Len(s) - Len(p) + 1) : SubSeq(s, i, i + Len(p) - 1) = p

\* /^\d+$/.test(s)
AllDigits(s) == s # "" /\ \A i \in 1..Len(s) : SubSeq(s, i, i) \in DigitChars

\* Number.prototype.toString of an integer.
RECURSIVE NatToString(_)
NatToString(n) ==
    IF n < 10 THEN Digits[n + 1]
    ELSE NatToString(n \div 10) \o Digits[(n % 10) + 1]

NumberToString(n) == IF n < 0 THEN "-" \o NatToString(-n) ELSE NatToString(n)

Max(a, b) == IF a >= b THEN a ELSE b
Min(a, b) == IF a <= b THEN a ELSE b

----------------------------------------------------------------------------
(* URLSearchParams: a list of <<name, value>> pairs, serialized by         *)
(* toString() with the application/x-www-form-urlencoded byte serializer.  *)

\* Bytes the serializer leaves as they are.
UrlencodedSafeChars == DigitChars \cup UpperChars \cup LowerChars \cup {"*", "-", ".", "_"}

\* One character as the serializer writes it: safe characters unchanged, a
\* space as "+", every other byte as %XX (the ASCII characters the inputs use).
UrlencodeChar(c) ==
    IF c \in UrlencodedSafeChars THEN c
    ELSE CASE c = " "  -> "+"
           [] c = "\t" -> "%09"
           [] c = "\n" -> "%0A"
           [] c = "#"  -> "%23"
           [] c = "%"  -> "%25"
           [] c = "&"  -> "%26"
           [] c = "+"  -> "%2B"
           [] c = ","  -> "%2C"
           [] c = "/"  -> "%2F"
           [] c = ":"  -> "%3A"
           [] c = "="  -> "%3D"
           [] c = "?"  -> "%3F"

RECURSIVE Urlencode(_)
Urlencode(s) ==
    IF s = "" THEN "" ELSE UrlencodeChar(Head(s)) \o Urlencode(Tail(s))

\* URLSearchParams.prototype.toString
RECURSIVE ParamsToString(_)
ParamsToString(params) ==
    IF params = <<>> THEN ""
    ELSE LET pair == Head(params)
             rest == Tail(params)
         IN  Urlencode(pair[1]) \o "=" \o Urlencode(pair[2])
             \o (IF rest = <<>> THEN "" ELSE "&" \o ParamsToString(rest))

\* params.append(name, value)
ParamsAppend(params, name, value) == Append(params, <<name, value>>)

----------------------------------------------------------------------------
(* Date: the time value is <<day, ms>> (days since 1970-01-01 and the       *)
(* milliseconds within the day, both UTC), or <<>> for an Invalid Date.     *)

InvalidTime == <<>>
DateObject(tv) == [t |-> "date", time |-> tv]

IsLeapYear(y) == (y % 4 = 0 /\ y % 100 # 0) \/ y % 400 = 0
DaysInMonth(y, m) ==
    IF m = 2 THEN (IF IsLeapYear(y) THEN 29 ELSE 28)
    ELSE IF m \in {4, 6, 9, 11} THEN 30 ELSE 31

\* Day number of a civil date (proleptic Gregorian calendar, years >= 0).
DaysFromCivil(y, m, d) ==
    LET yy  == IF m <= 2 THEN y - 1 ELSE y
        era == yy \div 400
        yoe == yy - era * 400
        mp  == IF m > 2 THEN m - 3 ELSE m + 9
        doy == (153 * mp + 2) \div 5 + d - 1
        doe == yoe * 365 + yoe \div 4 - yoe \div 100 + doy
    IN  era * 146097 + doe - 719468

\* <<year, month, day>> of a day number.
CivilFromDays(z0) ==
    LET z   == z0 + 719468
        era == z \div 146097
        doe == z - era * 146097
        yoe == (doe - doe \div 1460 + doe \div 36524 - doe \div 146096) \div 365
        doy == doe - (365 * yoe + yoe \div 4 - yoe \div 100)
        mp  == (5 * doy + 2) \div 153
        d   == doy - (153 * mp + 2) \div 5 + 1
        m   == IF mp < 10 THEN mp + 3 ELSE mp - 9
        y   == yoe + era * 400 + (IF m <= 2 THEN 1 ELSE 0)
    IN  <<y, m, d>>

\* Decimal value of a string of digits.
RECURSIVE DigitsValue(_)
DigitsValue(s) ==
    IF s = "" THEN 0
    ELSE LET last == SubSeq(s, Len(s), Len(s))
             dv   == CHOOSE i \in 0..9 : Digits[i + 1] = last
         IN  10 * DigitsValue(SubSeq(s, 1, Len(s) - 1)) + dv

\* new Date(string): the ECMAScript date-time string format, in the forms
\* YYYY-MM-DD, YYYY-MM-DDTHH:mm:ssZ and YYYY-MM-DDTHH:mm:ss.sssZ; any other
\* string gives an Invalid Date.
DateParse(s) ==
    LET Num(i, j)  == DigitsValue(SubSeq(s, i, j))
        IsNum(i, j) == AllDigits(SubSeq(s, i, j))
        Ch(i)      == SubSeq(s, i, i)
        dateOk == /\ Len(s) >= 10
                  /\ IsNum(1, 4) /\ Ch(5) = "-" /\ IsNum(6, 7) /\ Ch(8) = "-" /\ IsNum(9, 10)
                  /\ Num(6, 7) \in 1..12
                  /\ Num(9, 10) \in 1..DaysInMonth(Num(1, 4), Num(6, 7))
        timeOk == /\ Len(s) \in {20, 24}
                  /\ Ch(11) = "T" /\ IsNum(12, 13) /\ Ch(14) = ":" /\ IsNum(15, 16)
                  /\ Ch(17) = ":" /\ IsNum(18, 19)
                  /\ Num(12, 13) <= 23 /\ Num(15, 16) <= 59 /\ Num(18, 19) <= 59
                  /\ Ch(Len(s)) = "Z"
                  /\ (Len(s) = 24 => Ch(20) = "." /\ IsNum(21, 23))
        day    == DaysFromCivil(Num(1, 4), Num(6, 7), Num(9, 10))
        millis == (Num(12, 13) * 3600 + Num(15, 16) * 60 + Num(18, 19)) * 1000
                  + (IF Len(s) = 24 THEN Num(21, 23) ELSE 0)
    IN  IF dateOk /\ Len(s) = 10 THEN <<day, 0>>
        ELSE IF dateOk /\ timeOk THEN <<day, millis>>
        ELSE InvalidTime

\* A number left-padded with zeros to a width.
RECURSIVE PadStart(_, _)
PadStart(s, width) == IF Len(s) >= width THEN s ELSE PadStart("0" \o s, width)
Pad(n, width) == PadStart(NatToString(n), width)

\* An outcome of a step that may throw: a value, or an Error with a message.
Returns(v) == [ok |-> TRUE, v |-> v]
Throws(name, message) == [ok |-> FALSE, name |-> name, message |-> message]

\* Date.prototype.toISOString: YYYY-MM-DDTHH:mm:ss.sssZ, or a RangeError
\* for an Invalid Date.
ToISOString(tv) ==
    IF tv = InvalidTime THEN Throws("RangeError", "Invalid time value")
    ELSE LET ymd == CivilFromDays(tv[1])
             ms  == tv[2]
         IN  Returns(Pad(ymd[1], 4) \o "-" \o Pad(ymd[2], 2) \o "-" \o Pad(ymd[3], 2)
                     \o "T" \o Pad(ms \div 3600000, 2)
                     \o ":" \o Pad((ms \div 60000) % 60, 2)
                     \o ":" \o Pad((ms \div 1000) % 60, 2)
                     \o "." \o Pad(ms % 1000, 3) \o "Z")

\* JavaScript values of a field that takes several types are tagged with
\* their typeof.
Str(s) == [t |-> "string", s |-> s]
TypeOf(x) == IF x.t = "date" THEN "object" ELSE x.t

\* !date for a string or an object.
Falsy(x) == x.t = "string" /\ x.s = ""

\* formatPublishedAfterDate that sends a string as it is given.
formatPublishedAfterDateUnparsed(date) ==
    IF Falsy(date) THEN Returns("")
    ELSE IF TypeOf(date) = "string" THEN Returns(date.s)
    ELSE ToISOString(date.time)

\* formatPublishedAfterDate(date)
formatPublishedAfterDate(date) ==
    IF Falsy(date) THEN Returns("")
    ELSE LET dateObj == IF TypeOf(date) = "string" THEN DateParse(date.s) ELSE date.time
         IN  ToISOString(dateObj)

----------------------------------------------------------------------------
(* searchJobs: the options object and the query string built from it.      *)

FieldNames == {"q", "occupationField", "occupationGroup", "municipality", "region",
               "country", "employer", "remote", "publishedAfter", "excludeSource",
               "sort", "limit", "offset", "abroad"}

DEFAULT_LIMIT == 20
DEFAULT_OFFSET == 0
LIMIT_MIN == 1
LIMIT_MAX == 100
OFFSET_MIN == 0
OFFSET_MAX == 2000

\* The defaults of the destructured parameter.
SearchDefaults ==
    [q |-> "", occupationField |-> "", occupationGroup |-> "", municipality |-> "",
     region |-> "", country |-> "", employer |-> "", remote |-> FALSE,
     publishedAfter |-> Str(""), excludeSource |-> "", sort |-> "pubdate-desc",
     limit |-> DEFAULT_LIMIT, offset |-> DEFAULT_OFFSET, abroad |-> FALSE]

\* A field of the options object: the caller's value, or the default when the
\* caller left it out.
Option(o, f) == IF f \in DOMAIN o THEN o[f] ELSE SearchDefaults[f]

STOCKHOLM_CODE == "0180"

\* MunicipalityParam without the special case of Stockholm.
MunicipalityParamVerbatim(municipality) == Trim(municipality)

\* MunicipalityParam that takes Stockholm in either case for the city.
MunicipalityParamAnyCase(municipality) ==
    IF Trim(municipality) \in {"Stockholm", "stockholm"} THEN STOCKHOLM_CODE
    ELSE Trim(municipality)

\* The value appended for a non-empty municipality.
MunicipalityParam(municipality) ==
    IF Trim(municipality) = "Stockholm" THEN STOCKHOLM_CODE
    ELSE IF Includes(Trim(municipality), "_") THEN Trim(municipality)
    ELSE IF AllDigits(Trim(municipality)) THEN Trim(municipality)
    ELSE Trim(municipality)

\* AppendTrimmed that appends whatever the trimmed value is.
AppendTrimmedAlways(params, name, value) == ParamsAppend(params, name, Trim(value))

\* if (value?.trim()) params.append(name, value.trim())
AppendTrimmed(params, name, value) ==
    IF Trim(value) # "" THEN ParamsAppend(params, name, Trim(value)) ELSE params

\* AppendFlag that writes the flag out in either state.
AppendFlagExplicit(params, name, flag) ==
    ParamsAppend(params, name, IF flag THEN "true" ELSE "false")

\* if (flag) params.append(name, 'true')
AppendFlag(params, name, flag) ==
    IF flag THEN ParamsAppend(params, name, "true") ELSE params

ALLOWED_SORTS == {"pubdate-desc", "pubdate-asc", "relevance"}

\* AppendSort without the check against the documented values.
AppendSortUnchecked(params, sort) ==
    IF sort # "" THEN ParamsAppend(params, "sort", sort) ELSE params

\* The sort parameter: appended when truthy and one of the documented values.
AppendSort(params, sort) ==
    IF sort # "" /\ sort \in ALLOWED_SORTS THEN ParamsAppend(params, "sort", sort) ELSE params

\* ClampLimit without the lower bound.
ClampLimitNoFloor(limit) == Min(LIMIT_MAX, limit)

ClampLimit(limit) == Min(LIMIT_MAX, Max(LIMIT_MIN, limit))
ClampOffset(offset) == Max(OFFSET_MIN, Min(OFFSET_MAX, offset))

\* AppendPagination that sends an offset only when it is not the first page.
AppendPaginationFromSecondPage(params, limit, offset) ==
    IF ClampOffset(offset) = 0
    THEN ParamsAppend(params, "limit", NumberToString(ClampLimit(limit)))
    ELSE ParamsAppend(ParamsAppend(params, "limit", NumberToString(ClampLimit(limit))),
                      "offset", NumberToString(ClampOffset(offset)))

\* The pagination parameters, always appended.
AppendPagination(params, limit, offset) ==
    ParamsAppend(ParamsAppend(params, "limit", NumberToString(ClampLimit(limit))),
                 "offset", NumberToString(ClampOffset(offset)))

\* The URLSearchParams searchJobs builds, in the order of its appends; throws
\* what formatPublishedAfterDate throws.
BuildSearchParams(o) ==
    LET p1 == AppendTrimmed(<<>>, "q", Option(o, "q"))
        p2 == IF Trim(Option(o, "municipality")) # ""
              THEN ParamsAppend(p1, "municipality", MunicipalityParam(Option(o, "municipality")))
              ELSE p1
        p3 == AppendTrimmed(p2, "region", Option(o, "region"))
        p4 == AppendTrimmed(p3, "country", Option(o, "country"))
        p5 == AppendTrimmed(p4, "occupation-field", Option(o, "occupationField"))
        p6 == AppendTrimmed(p5, "occupation-group", Option(o, "occupationGroup"))
        p7 == AppendTrimmed(p6, "employer", Option(o, "employer"))
        p8 == AppendFlag(p7, "remote", Option(o, "remote"))
        p9 == AppendFlag(p8, "abroad", Option(o, "abroad"))
        p10 == AppendTrimmed(p9, "exclude_source", Option(o, "excludeSource"))
        publishedAfter == Option(o, "publishedAfter")
        formatted == formatPublishedAfterDate(publishedAfter)
        p11 == IF Falsy(publishedAfter) THEN p10
               ELSE ParamsAppend(p10, "published-after", formatted.v)
        p12 == AppendPagination(p11, Option(o, "limit"), Option(o, "offset"))
        p13 == AppendSort(p12, Option(o, "sort"))
    IN  IF ~Falsy(publishedAfter) /\ ~formatted.ok THEN formatted
        ELSE Returns(p13)

\* The request URL of a search.
SearchUrl(params) == API_BASE_URL \o "/joblinks?" \o ParamsToString(params)

----------------------------------------------------------------------------
(* JavaScript values of the responses and the results.                     *)

Undefined == [t |-> "undefined"]
Null == [t |-> "null"]
Bool(b) == [t |-> "boolean", b |-> b]
Num(n) == [t |-> "number", n |-> n]
Arr(seq) == [t |-> "array", items |-> seq]
Obj(fields) == [t |-> "object", fields |-> fields]

\* ToBoolean
Truthy(x) ==
    CASE x.t \in {"undefined", "null"} -> FALSE
      [] x.t = "boolean" -> x.b
      [] x.t = "number"  -> x.n # 0
      [] x.t = "string"  -> x.s # ""
      [] OTHER -> TRUE

\* a || b
OrElse(a, b) == IF Truthy(a) THEN a ELSE b

\* x.name: a TypeError on null and undefined, undefined where x has no such
\* property.
GetProperty(x, name) ==
    IF x.t \in {"undefined", "null"}
    THEN Throws("TypeError", "Cannot read properties of " \o x.t)
    ELSE IF x.t = "object" /\ name \in DOMAIN x.fields THEN Returns(x.fields[name])
    ELSE Returns(Undefined)

\* The body of a response as response.json() finds it: no body at all, text
\* that is not JSON, or a JSON document.
EmptyBody == [kind |-> "empty"]
MalformedBody == [kind |-> "malformed"]
JsonBody(value) == [kind |-> "json", value |-> value]

\* response.json(): the parsed document, or the SyntaxError of JSON.parse.
ResponseJson(b) ==
    CASE b.kind = "empty"     -> Throws("SyntaxError", "Unexpected end of JSON input")
      [] b.kind = "malformed" -> Throws("SyntaxError", "Unexpected token < in JSON at position 0")
      [] b.kind = "json"      -> Returns(b.value)

\* response.ok
ResponseOk(status) == status \in 200..299

\* getErrorMessageForStatus without its case for 429.
getErrorMessageNoRateLimit(status, id) ==
    CASE status = 400 -> "Bad Request: Something is wrong with the query parameters"
      [] status = 404 -> IF id # ""
                         THEN "Missing Ad: The requested ad with ID " \o id \o " is not available"
                         ELSE "Resource not found"
      [] status = 500 -> "Internal Server Error: Server-side issue"
      [] OTHER -> "HTTP Error: " \o NumberToString(status)

\* getErrorMessageForStatus(status, id): id is "" when the caller gives none.
getErrorMessageForStatus(status, id) ==
    CASE status = 400 -> "Bad Request: Something is wrong with the query parameters"
      [] status = 404 -> IF id # ""
                         THEN "Missing Ad: The requested ad with ID " \o id \o " is not available"
                         ELSE "Resource not found"
      [] status = 429 -> "Rate limit exceeded: You have sent too many requests in a given amount of time"
      [] status = 500 -> "Internal Server Error: Server-side issue"
      [] OTHER -> "HTTP Error: " \o NumberToString(status)

\* IsJsonContentType as a comparison with the bare media type.
IsJsonContentTypeExact(contentType) ==
    contentType.t = "string" /\ contentType.s = "application/json"

\* contentType?.includes('application/json')
IsJsonContentType(contentType) ==
    contentType.t = "string" /\ Includes(contentType.s, "application/json")

\* The result object of a failed search.
SearchFailure(message) == Obj([hits |-> Arr(<<>>), total |-> Num(0), error |-> message])

\* `API error: ${response.status}`
ApiErrorMessage(status) == "API error: " \o NumberToString(status)

\* SearchJsonError without the fallback for a body that carries no message.
SearchJsonErrorNoFallback(status, parsed) ==
    LET message == IF parsed.ok THEN GetProperty(parsed.v, "message") ELSE parsed
    IN  IF message.ok
        THEN Returns([t |-> "object",
                      fields |-> [hits |-> [t |-> "array", items |-> <<>>],
                                  total |-> [t |-> "number", n |-> 0],
                                  error |-> message.v]])
        ELSE Returns([t |-> "object",
                      fields |-> [hits |-> [t |-> "array", items |-> <<>>],
                                  total |-> [t |-> "number", n |-> 0],
                                  error |-> [t |-> "string",
                                             s |-> "API error: " \o NumberToString(status)]]])

\* searchJobs, lines 126-131: the result for a non-2xx response with a JSON
\* content type, given what response.json() settled to.  A throw inside the
\* inner try (of json(), or of errorData.message) lands in the inner catch.
SearchJsonError(status, parsed) ==
    LET message == IF parsed.ok THEN GetProperty(parsed.v, "message") ELSE parsed
    IN  IF message.ok
        THEN Returns(SearchFailure(OrElse(message.v, Str(ApiErrorMessage(status)))))
        ELSE Returns(SearchFailure(Str(ApiErrorMessage(status))))

\* searchJobs, line 134: the result for a non-2xx response of another
\* content type.
SearchStatusError(status) == Returns(SearchFailure(Str(getErrorMessageForStatus(status, ""))))

\* SearchSuccess that reports a result without hits as an error.
SearchSuccessEmptyIsError(parsed, requestUrl) ==
    IF ~parsed.ok THEN parsed
    ELSE LET hits  == GetProperty(parsed.v, "hits")
             total == GetProperty(parsed.v, "total")
         IN  IF ~hits.ok THEN hits
             ELSE IF OrElse(hits.v, Arr(<<>>)) = Arr(<<>>)
                  THEN Returns(SearchFailure(Str("No jobs found")))
             ELSE Returns(Obj([hits  |-> OrElse(hits.v, Arr(<<>>)),
                               total |-> OrElse(total.v, Num(0)),
                               query |-> Str(requestUrl)]))

\* searchJobs, lines 137-143: the result for a 2xx response, given what
\* response.json() settled to.
SearchSuccess(parsed, requestUrl) ==
    IF ~parsed.ok THEN parsed
    ELSE LET hits  == GetProperty(parsed.v, "hits")
             total == GetProperty(parsed.v, "total")
         IN  IF ~hits.ok THEN hits
             ELSE Returns(Obj([hits  |-> OrElse(hits.v, Arr(<<>>)),
                               total |-> OrElse(total.v, Num(0)),
                               query |-> Str(requestUrl)]))

\* SearchCatch that throws the error on.
SearchCatchRethrows(error) == error

\* searchJobs, lines 144-147: the catch of the function's try block.
SearchCatch(error) == Returns(SearchFailure(Str(error.message)))

\* The record getJobById returns for a failure.
JobError(message) == Obj([error |-> Str(message)])

\* JobStatusError that leaves the identifier out of the message.
JobStatusErrorNoId(status, id) ==
    Returns(Obj([error |-> Str(getErrorMessageForStatus(status, "")), status |-> Num(status)]))

\* getJobById, lines 167-173: a non-2xx response.
JobStatusError(status, id) ==
    Returns(Obj([error |-> Str(getErrorMessageForStatus(status, id)), status |-> Num(status)]))

\* getJobById, lines 175-180: a 2xx response, given what response.json()
\* settled to.
JobSuccess(parsed) ==
    IF ~parsed.ok THEN parsed
    ELSE IF ~Truthy(parsed.v) THEN Returns(JobError("Empty response from API"))
    ELSE Returns(parsed.v)

\* JobCatch that reports the failure with a message of the status table.
JobCatchStatusMessage(error) ==
    Returns([t |-> "object",
             fields |-> [error |-> [t |-> "string", s |-> getErrorMessageForStatus(500, "")]]])

\* getJobById, lines 181-184: the catch of the function's try block.
JobCatch(error) == Returns(JobError("Network error when fetching job details"))

\* parseInt(s, 10): white space, an optional sign, then the leading digits;
\* NaN (here <<>>) when there are none.
RECURSIVE LeadingDigits(_)
LeadingDigits(s) ==
    IF s = "" \/ Head(s) \notin DigitChars THEN ""
    ELSE Head(s) \o LeadingDigits(Tail(s))

NaN == <<>>
ParseInt(s) ==
    LET text     == TrimStart(s)
        negative == text # "" /\ Head(text) = "-"
        unsigned == IF text # "" /\ Head(text) \in {"-", "+"} THEN Tail(text) ELSE text
        digits   == LeadingDigits(unsigned)
    IN  IF digits = "" THEN NaN
        ELSE IF negative THEN <<-DigitsValue(digits)>> ELSE <<DigitsValue(digits)>>

MIN_LOGO_BYTES == 100

\* LogoVerdict that accepts a length equal to the threshold.
LogoVerdictAtLeast(status, contentType, contentLength) ==
    IF ~ResponseOk(status) THEN Returns(Bool(FALSE))
    ELSE IF contentType.t # "string" THEN Returns(Undefined)
    ELSE IF ~StartsWith(contentType.s, "image/") THEN Returns(Bool(FALSE))
    ELSE IF ~Truthy(contentLength) THEN Returns(Bool(TRUE))
    ELSE LET n == ParseInt(contentLength.s)
         IN  Returns(Bool(n # NaN /\ n[1] >= MIN_LOGO_BYTES))

\* isValidLogo, lines 209-214: the value of the && chain for a response.
LogoVerdict(status, contentType, contentLength) ==
    IF ~ResponseOk(status) THEN Returns(Bool(FALSE))
    ELSE IF contentType.t # "string" THEN Returns(Undefined)
    ELSE IF ~StartsWith(contentType.s, "image/") THEN Returns(Bool(FALSE))
    ELSE IF ~Truthy(contentLength) THEN Returns(Bool(TRUE))
    ELSE LET n == ParseInt(contentLength.s)
         IN  Returns(Bool(n # NaN /\ n[1] > MIN_LOGO_BYTES))

\* isValidLogo, lines 215-218: the catch of the function's try block.
LogoCatch(error) == Returns(Bool(FALSE))

\* How an async function's promise settles: resolved with the value it
\* returns, rejected with what it throws.
Settle(outcome) ==
    IF outcome.ok THEN [kind |-> "resolved", value |-> outcome.v]
    ELSE [kind |-> "rejected", reason |-> outcome]

\* try { body } catch (error) { handler }: the body's outcome, or the
\* handler's outcome for what the body threw.
TryCatch(outcome, handled) == IF outcome.ok THEN outcome ELSE handled

----------------------------------------------------------------------------
(* The inputs: what callers pass and what the upstream service answers.    *)

\* limit inputs: around 0, around both clamp edges, the default, far beyond.
LimitInputs ==
    (-MaxDelta..MaxDelta) \cup ((LIMIT_MIN - MaxDelta)..(LIMIT_MIN + MaxDelta))
    \cup ((LIMIT_MAX - MaxDelta)..(LIMIT_MAX + MaxDelta)) \cup {DEFAULT_LIMIT, 10 * LIMIT_MAX}

\* offset inputs, likewise.
OffsetInputs ==
    ((OFFSET_MIN - MaxDelta)..(OFFSET_MIN + MaxDelta))
    \cup ((OFFSET_MAX - MaxDelta)..(OFFSET_MAX + MaxDelta)) \cup {15, 10 * OFFSET_MAX}

\* The values a caller may give a field.
FieldInputs(f) ==
    CASE f = "q" -> {"", "  ", " student deltid ", "C++ & C#"}
      [] f = "municipality" -> {"", " ", "Stockholm", " Stockholm\n", "stockholm", "0180",
                                "Uppsala", "tfRE_hXa_eq7"}
      [] f = "region" -> {"", "9hXe_F4g_eTG "}
      [] f = "country" -> {"\t", "-i46j_HmG_v64"}
      [] f = "occupationField" -> {"", "apaJ_2ja_LuF"}
      [] f = "occupationGroup" -> {" ", "2512"}
      [] f = "employer" -> {"", "5560001234"}
      [] f = "excludeSource" -> {"", "jobb.example.se"}
      [] f = "remote" -> BOOLEAN
      [] f = "abroad" -> BOOLEAN
      [] f = "publishedAfter" -> {Str(""), Str("2025-01-01"), Str("2025-01-01T00:00:00Z"),
                                  Str("last week"), DateObject(<<20089, 0>>),
                                  DateObject(InvalidTime)}
      [] f = "sort" -> {"", "pubdate-desc", "pubdate-asc", "relevance", "relevance-desc"}
      [] f = "limit" -> LimitInputs
      [] f = "offset" -> OffsetInputs

\* The options objects that supply exactly the fields F.
RECURSIVE OptionsOver(_)
OptionsOver(F) ==
    IF F = {} THEN {<<>>}
    ELSE LET f == CHOOSE x \in F : TRUE
         IN  {[g \in F |-> IF g = f THEN v ELSE o[g]] :
                 o \in OptionsOver(F \ {f}), v \in FieldInputs(f)}

\* The sets of fields a caller supplies, the others left to their defaults:
\* any choice of at most MaxSuppliedFields fields.
SuppliedFieldSets == {F \in SUBSET FieldNames : Cardinality(F) <= MaxSuppliedFields}

JobIds == {"", "xyz", "24680135"}

\* getJobLogoUrl that builds a URL whatever the id.
getJobLogoUrlUnguarded(id) == [t |-> "string", s |-> API_BASE_URL \o "/ad/" \o id \o "/logo"]

\* getJobLogoUrl(id): null without an id, the logo URL of the ad otherwise.
getJobLogoUrl(id) == IF id = "" THEN Null ELSE Str(API_BASE_URL \o "/ad/" \o id \o "/logo")

ImageUrls == {getJobLogoUrl(id) : id \in JobIds}

\* What fetch rejects with when there is no response at all.
FetchErrors == {Throws("TypeError", "Failed to fetch"),
                Throws("TypeError", "NetworkError when attempting to fetch resource.")}

Statuses == {200, 400, 401, 404, 429, 500, 503}

JsonContentTypes == {Str("application/json"), Str("application/json; charset=utf-8")}
ApiContentTypes == {Null, Str("text/html")} \cup JsonContentTypes
LogoContentTypes == {Null, Str("text/html"), Str("image/png")}
LogoContentLengths == {Null, Str(""), Str("43"), Str("100"), Str("101")}

NoResponse == [kind |-> "none"]
NoBody == [kind |-> "none"]
Response(status, contentType, contentLength) ==
    [status |-> status, contentType |-> contentType, contentLength |-> contentLength]

ApiResponses == {Response(st, ct, Null) : st \in Statuses, ct \in ApiContentTypes}
LogoResponses ==
    {Response(st, ct, cl) : st \in Statuses, ct \in LogoContentTypes, cl \in LogoContentLengths}

Job1 == Obj([id |-> Str("24680135"), headline |-> Str("Utvecklare")])
Job2 == Obj([id |-> Str("xyz")])

\* Bodies of search responses: the documented shapes of a result, of an
\* error, and bodies that are not JSON.
SearchBodies ==
    {EmptyBody, MalformedBody, JsonBody(Null),
     JsonBody(Obj([hits |-> Arr(<<Job1, Job2>>), total |-> Num(42)])),
     JsonBody(Obj([hits |-> Arr(<<Job1>>), total |-> Obj([value |-> Num(42)])])),
     JsonBody(Obj([hits |-> Arr(<<>>), total |-> Num(0)])),
     JsonBody(Obj([hits |-> Arr(<<>>), total |-> Obj([value |-> Num(0)])])),
     JsonBody(Obj([hits |-> Arr(<<Job2>>)])),
     JsonBody(Obj([message |-> Str("Invalid value for parameter")])),
     JsonBody(Obj([message |-> Str("")])),
     JsonBody(Obj([error |-> Str("unavailable")]))}

JobBodies == {EmptyBody, MalformedBody, JsonBody(Null), JsonBody(Job1)}

NoError == [ok |-> TRUE]
Pending == [kind |-> "pending"]

----------------------------------------------------------------------------
\* The page before it is rendered.
PageInit ==
    /\ mounted = FALSE
    /\ routerQuery = <<>>
    /\ searchParams = <<>>
    /\ jobs = Arr(<<>>)
    /\ totalJobs = 0
    /\ pageError = Null
    /\ apiSources = Arr(<<>>)
    /\ loading = FALSE
    /\ requests = <<>>

\* The form before it is rendered.
FormInit ==
    /\ formMounted = FALSE
    /\ q = ""
    /\ location = ""
    /\ isRemote = FALSE
    /\ isAbroad = FALSE
    /\ useCurrentLocation = FALSE
    /\ position = Null
    /\ radius = Num(10)
    /\ apiChoice = "both"
    /\ suggestions = Arr(<<>>)
    /\ isLoading = FALSE
    /\ timers = {}
    /\ typeahead = <<>>
    /\ pushed = <<>>

\* The card before it is rendered.
CardInit ==
    /\ cardMounted = FALSE
    /\ job = Undefined
    /\ imgSrc = "/file.svg"
    /\ probes = <<>>

\* No call of the client has been made.
CallsInit == calls = <<>>

Init ==
    /\ PageInit
    /\ FormInit
    /\ CardInit
    /\ CallsInit
    /\ pc = "idle"
    /\ fn = "none"
    /\ args = <<>>
    /\ url = ""
    /\ fetches = 0
    /\ response = NoResponse
    /\ body = NoBody
    /\ thrown = NoError
    /\ result = Pending

\* The call settles with an outcome; thrown keeps what its try block caught.
Finish(outcome, caught) ==
    /\ pc' = "done"
    /\ thrown' = caught
    /\ result' = Settle(outcome)

\* The call hands a URL to fetch and waits.
Fetch(requestUrl) ==
    /\ pc' = "awaitFetch"
    /\ url' = requestUrl
    /\ fetches' = fetches + 1
    /\ UNCHANGED <<thrown, result>>

\* searchJobs(o), up to its await of fetch.
SearchJobsCall(o) ==
    /\ pc = "idle"
    /\ fn' = "searchJobs"
    /\ args' = o
    /\ LET params == BuildSearchParams(o)
       IN  IF params.ok
           THEN Fetch(SearchUrl(params.v))
           ELSE Finish(TryCatch(params, SearchCatch(params)), params)
                /\ UNCHANGED <<url, fetches>>
    /\ UNCHANGED <<response, body>>
    /\ UNCHANGED <<pageVars, formVars, cardVars, calls>>

\* getJobById(id), up to its await of fetch.
GetJobByIdCall(id) ==
    /\ pc = "idle"
    /\ fn' = "getJobById"
    /\ args' = id
    /\ IF id = ""
       THEN Finish(Returns(JobError("Job ID is required")), NoError)
            /\ UNCHANGED <<url, fetches>>
       ELSE Fetch(API_BASE_URL \o "/ad/" \o id)
    /\ UNCHANGED <<response, body>>
    /\ UNCHANGED <<pageVars, formVars, cardVars, calls>>

\* isValidLogo(imageUrl), up to its await of fetch.
IsValidLogoCall(imageUrl) ==
    /\ pc = "idle"
    /\ fn' = "isValidLogo"
    /\ args' = imageUrl
    /\ IF ~Truthy(imageUrl)
       THEN Finish(Returns(Bool(FALSE)), NoError) /\ UNCHANGED <<url, fetches>>
       ELSE Fetch(imageUrl.s)
    /\ UNCHANGED <<response, body>>
    /\ UNCHANGED <<pageVars, formVars, cardVars, calls>>

\* getJobLogoUrl(id): a synchronous function, it returns at once.
GetJobLogoUrlCall(id) ==
    /\ pc = "idle"
    /\ fn' = "getJobLogoUrl"
    /\ args' = id
    /\ pc' = "done"
    /\ result' = [kind |-> "returned", value |-> getJobLogoUrl(id)]
    /\ UNCHANGED <<url, fetches, response, body, thrown>>
    /\ UNCHANGED <<pageVars, formVars, cardVars, calls>>

\* The catch block of the function the call runs.
Catch(error) ==
    CASE fn = "searchJobs"  -> SearchCatch(error)
      [] fn = "getJobById"  -> JobCatch(error)
      [] fn = "isValidLogo" -> LogoCatch(error)

\* FetchRejects that tries the request once more before it gives up.
FetchRejectsRetries(error) ==
    /\ pc = "awaitFetch"
    /\ IF fetches < 2
       THEN Fetch(url)
       ELSE Finish(TryCatch(error, Catch(error)), error) /\ UNCHANGED <<url, fetches>>
    /\ UNCHANGED <<fn, args, response, body>>
    /\ UNCHANGED <<pageVars, formVars, cardVars, calls>>

\* fetch rejects: there is no response.
FetchRejects(error) ==
    /\ pc = "awaitFetch"
    /\ Finish(TryCatch(error, Catch(error)), error)
    /\ UNCHANGED <<fn, args, url, fetches, response, body>>
    /\ UNCHANGED <<pageVars, formVars, cardVars, calls>>

\* fetch resolves with a response: the call runs on to its next await, of
\* response.json(), or to its return.
FetchResolves(r) ==
    /\ pc = "awaitFetch"
    /\ response' = r
    /\ CASE fn = "searchJobs" ->
              IF ~ResponseOk(r.status) /\ ~IsJsonContentType(r.contentType)
              THEN Finish(SearchStatusError(r.status), NoError)
              ELSE pc' = "awaitJson" /\ UNCHANGED <<thrown, result>>
         [] fn = "getJobById" ->
              IF ~ResponseOk(r.status)
              THEN Finish(JobStatusError(r.status, args), NoError)
              ELSE pc' = "awaitJson" /\ UNCHANGED <<thrown, result>>
         [] fn = "isValidLogo" ->
              Finish(LogoVerdict(r.status, r.contentType, r.contentLength), NoError)
    /\ UNCHANGED <<fn, args, url, fetches, body>>
    /\ UNCHANGED <<pageVars, formVars, cardVars, calls>>

\* response.json() settles for the body b.
JsonSettles(b) ==
    /\ pc = "awaitJson"
    /\ body' = b
    /\ LET parsed == ResponseJson(b)
           outcome ==
               CASE fn = "searchJobs" ->
                      IF ResponseOk(response.status)
                      THEN SearchSuccess(parsed, url)
                      ELSE SearchJsonError(response.status, parsed)
                 [] fn = "getJobById" -> JobSuccess(parsed)
       IN  Finish(TryCatch(outcome, Catch(outcome)),
                  IF outcome.ok THEN NoError ELSE outcome)
    /\ UNCHANGED <<fn, args, url, fetches, response>>
    /\ UNCHANGED <<pageVars, formVars, cardVars, calls>>

\* The options objects of the calls whose whole course is followed: no
\* field, or any one field, supplied.
CallFieldSets == {{}} \cup {{f} : f \in FieldNames}

Next ==
    \/ pc = "idle" /\ \E F \in CallFieldSets : \E o \in OptionsOver(F) : SearchJobsCall(o)
    \/ pc = "idle" /\ \E id \in JobIds : GetJobByIdCall(id)
    \/ pc = "idle" /\ \E imageUrl \in ImageUrls : IsValidLogoCall(imageUrl)
    \/ pc = "idle" /\ \E id \in JobIds : GetJobLogoUrlCall(id)
    \/ pc = "awaitFetch" /\ \E error \in FetchErrors : FetchRejects(error)
    \/ pc = "awaitFetch" /\ fn = "isValidLogo" /\ \E r \in LogoResponses : FetchResolves(r)
    \/ pc = "awaitFetch" /\ fn # "isValidLogo" /\ \E r \in ApiResponses : FetchResolves(r)
    \/ pc = "awaitJson" /\ fn = "searchJobs" /\ \E b \in SearchBodies : JsonSettles(b)
    \/ pc = "awaitJson" /\ fn = "getJobById" /\ \E b \in JobBodies : JsonSettles(b)

\* The client: one call of one of its functions, followed from the call to
\* the settling of its promise.
Spec == Init /\ [][Next]_vars

\* Query building alone: searchJobs called with an options object over any
\* of the supplied field sets, and followed up to its fetch.
NextQuery ==
    pc = "idle" /\ \E F \in SuppliedFieldSets : \E o \in OptionsOver(F) : SearchJobsCall(o)

SpecQuery == Init /\ [][NextQuery]_vars

----------------------------------------------------------------------------
(* The query string as the upstream service reads it: split at "&" and at   *)
(* the first "=", "+" read as a space and %XX as the byte it names.         *)

\* The positions of the character c in s.
PositionsOf(s, c) == {i \in 1..Len(s) : SubSeq(s, i, i) = c}

\* Position of the first occurrence of the character c in s, 0 if none.
IndexOf(s, c) ==
    LET at == PositionsOf(s, c)
    IN  IF at = {} THEN 0 ELSE CHOOSE i \in at : \A j \in at : i <= j

\* The pieces of s between the occurrences of the character c.
SplitOn(s, c) ==
    LET at == PositionsOf(s, c)
        cut(k) == IF k = 0 THEN 0
                  ELSE IF k > Cardinality(at) THEN Len(s) + 1
                  ELSE CHOOSE i \in at : Cardinality({j \in at : j < i}) = k - 1
    IN  [k \in 1..(Cardinality(at) + 1) |-> SubSeq(s, cut(k - 1) + 1, cut(k) - 1)]

PercentByte(code) ==
    CASE code = "%09" -> "\t"
      [] code = "%0A" -> "\n"
      [] code = "%23" -> "#"
      [] code = "%25" -> "%"
      [] code = "%26" -> "&"
      [] code = "%2B" -> "+"
      [] code = "%2C" -> ","
      [] code = "%2F" -> "/"
      [] code = "%3A" -> ":"
      [] code = "%3D" -> "="
      [] code = "%3F" -> "?"

\* The text a serialized name or value stands for: "+" is a space, %XX a
\* byte, anything else itself.
RECURSIVE Urldecode(_)
Urldecode(s) ==
    LET at == {i \in 1..Len(s) : SubSeq(s, i, i) \in {"+", "%"}}
    IN  IF at = {} THEN s
        ELSE LET i == CHOOSE k \in at : \A j \in at : k <= j
             IN  IF SubSeq(s, i, i) = "+"
                 THEN SubSeq(s, 1, i - 1) \o " " \o Urldecode(SubSeq(s, i + 1, Len(s)))
                 ELSE SubSeq(s, 1, i - 1) \o PercentByte(SubSeq(s, i, i + 2))
                      \o Urldecode(SubSeq(s, i + 3, Len(s)))

\* The <<name, value>> pairs of a query string.
RECURSIVE DecodePairs(_)
DecodePairs(parts) ==
    IF parts = <<>> THEN <<>>
    ELSE LET part == Head(parts)
             eq   == IndexOf(part, "=")
             pair == IF eq = 0 THEN <<Urldecode(part), "">>
                     ELSE <<Urldecode(SubSeq(part, 1, eq - 1)),
                            Urldecode(SubSeq(part, eq + 1, Len(part)))>>
         IN  <<pair>> \o DecodePairs(Tail(parts))

\* The query of a URL: what follows its first "?".  The path of the search
\* endpoint holds none, so the query of a search request starts after it.
SearchEndpoint == "https://links.api.jobtechdev.se/joblinks?"
QueryOf(requestUrl) ==
    IF StartsWith(requestUrl, SearchEndpoint)
    THEN SubSeq(requestUrl, Len(SearchEndpoint) + 1, Len(requestUrl))
    ELSE LET mark == IndexOf(requestUrl, "?")
         IN  IF mark = 0 THEN "" ELSE SubSeq(requestUrl, mark + 1, Len(requestUrl))

WirePairs(requestUrl) ==
    LET query == QueryOf(requestUrl)
    IN  IF query = "" THEN <<>> ELSE DecodePairs(SplitOn(query, "&"))

\* The values a list of pairs carries for a parameter name, in order.
ValuesOf(pairs, name) ==
    LET RECURSIVE Pick(_)
        Pick(i) == IF i > Len(pairs) THEN <<>>
                   ELSE (IF pairs[i][1] = name THEN <<pairs[i][2]>> ELSE <<>>) \o Pick(i + 1)
    IN  Pick(1)

\* The pairs of a list under other names.
Without(pairs, name) ==
    LET RECURSIVE Keep(_)
        Keep(i) == IF i > Len(pairs) THEN <<>>
                   ELSE (IF pairs[i][1] # name THEN <<pairs[i]>> ELSE <<>>) \o Keep(i + 1)
    IN  Keep(1)

\* A search call that has built its query string and handed it to fetch.
SearchSent == fn = "searchJobs" /\ pc \in {"awaitFetch", "awaitJson", "done"} /\ fetches = 1

\* The options object with one field set, and with one field left out.
WithField(o, f, v) == [g \in (DOMAIN o) \cup {f} |-> IF g = f THEN v ELSE o[g]]
WithoutField(o, f) == [g \in (DOMAIN o) \ {f} |-> o[g]]

----------------------------------------------------------------------------
(* C1: for every limit and offset passed to searchJobs, the limit sent is   *)
(* min(100, max(1, limit)), within [1,100], and the offset sent is          *)
(* max(0, min(2000, offset)), within [0,2000].                              *)
C1_PaginationClamped ==
    SearchSent =>
        LET limit  == Option(args, "limit")
            offset == Option(args, "offset")
            wantLimit  == IF limit < 1 THEN 1 ELSE IF limit > 100 THEN 100 ELSE limit
            wantOffset == IF offset < 0 THEN 0 ELSE IF offset > 2000 THEN 2000 ELSE offset
            wire       == WirePairs(url)
            sentLimit  == ValuesOf(wire, "limit")
            sentOffset == ValuesOf(wire, "offset")
        IN  /\ Len(sentLimit) = 1 /\ Len(sentOffset) = 1
            /\ AllDigits(sentLimit[1]) /\ AllDigits(sentOffset[1])
            /\ DigitsValue(sentLimit[1]) = wantLimit
            /\ DigitsValue(sentOffset[1]) = wantOffset
            /\ wantLimit \in 1..100
            /\ wantOffset \in 0..2000

\* A call with a limit above the bound and a negative offset has been sent.
C1_Witness ==
    /\ SearchSent
    /\ DOMAIN args = {"limit", "offset"}
    /\ args["limit"] > 100
    /\ args["offset"] < 0

(* C2: searchJobs with municipality "Stockholm" produces the query string   *)
(* that the same options with municipality "0180" produce, and it carries   *)
(* municipality=0180.                                                      *)
C2_StockholmIsItsCode ==
    (SearchSent /\ "municipality" \in DOMAIN args /\ args["municipality"] = "Stockholm") =>
        LET other == BuildSearchParams(WithField(args, "municipality", "0180"))
        IN  /\ other.ok
            /\ url = SearchUrl(other.v)
            /\ ValuesOf(WirePairs(url), "municipality") = <<"0180">>
            /\ Includes(url, "municipality=0180")

\* A call with municipality "Stockholm" and another field has been sent.
C2_Witness ==
    /\ SearchSent
    /\ DOMAIN args = {"municipality", "q"}
    /\ args["municipality"] = "Stockholm"
    /\ args["q"] = "C++ & C#"

----------------------------------------------------------------------------
(* The calls as their callers see them.                                    *)

Done(f) == fn = f /\ pc = "done"
Resolved == result.kind = "resolved"

\* The call got a response, with a 2xx status or another.
GotResponse == response # NoResponse
GotOk == GotResponse /\ response.status \in 200..299
GotError == GotResponse /\ response.status \notin 200..299

\* fetch rejected: the call got no response at all.
NetworkFailure == pc = "done" /\ ~GotResponse /\ fetches = 1

\* A field of the object the call resolved to.
HasField(name) == Resolved /\ result.value.t = "object" /\ name \in DOMAIN result.value.fields
Field(name) == result.value.fields[name]

IsNonEmptyString(x) == x.t = "string" /\ x.s # ""

\* The message the status-code table is documented to give.
DocumentedStatusMessage(status, id) ==
    IF status = 400 THEN "Bad Request: Something is wrong with the query parameters"
    ELSE IF status = 404 /\ id # ""
         THEN "Missing Ad: The requested ad with ID " \o id \o " is not available"
    ELSE IF status = 404 THEN "Resource not found"
    ELSE IF status = 429
         THEN "Rate limit exceeded: You have sent too many requests in a given amount of time"
    ELSE IF status = 500 THEN "Internal Server Error: Server-side issue"
    ELSE "HTTP Error: " \o NumberToString(status)

(* C4: for a 2xx search response the total of the result is a plain number: *)
(* a total object carrying a value is unwrapped to that value, a numeric    *)
(* total is returned as is, an absent or non-numeric total becomes 0.       *)
C4_TotalIsPlainNumber ==
    (Done("searchJobs") /\ GotOk /\ body.kind = "json" /\ body.value.t = "object") =>
        LET doc  == body.value.fields
            want == IF "total" \notin DOMAIN doc THEN 0
                    ELSE IF doc["total"].t = "number" THEN doc["total"].n
                    ELSE IF doc["total"].t = "object" /\ "value" \in DOMAIN doc["total"].fields
                         THEN doc["total"].fields["value"].n
                    ELSE 0
        IN  HasField("total") /\ Field("total") = Num(want)

(* C5: every value searchJobs resolves to has hits a sequence, total a      *)
(* number, never an object, and error a string or absent.                   *)
C5_ResultShape ==
    Done("searchJobs") =>
        /\ HasField("hits") /\ Field("hits").t = "array"
        /\ HasField("total") /\ Field("total").t = "number"
        /\ HasField("error") => Field("error").t = "string"

(* C6: searchJobs, getJobById and isValidLogo never reject: whatever the    *)
(* arguments and whatever the upstream does, a finished call has resolved   *)
(* to a value; a search whose fetch rejected resolves to hits [], total 0   *)
(* and the message of the failure.                                          *)
C6_NeverRejects ==
    /\ (pc = "done" /\ fn \in {"searchJobs", "getJobById", "isValidLogo"}) => Resolved
    /\ pc # "done" => result = Pending
    /\ (Done("searchJobs") /\ NetworkFailure) =>
          /\ DOMAIN result.value.fields = {"hits", "total", "error"}
          /\ Field("hits") = Arr(<<>>)
          /\ Field("total") = Num(0)
          /\ Field("error") = Str(thrown.message)

\* A search whose fetch rejected has finished.
C6_Witness == Done("searchJobs") /\ NetworkFailure /\ thrown \in FetchErrors

\* The failure paths of searchJobs: a non-2xx response, or an exception
\* caught (no response, a body that is not JSON, a date that does not format).
SearchFailed == Done("searchJobs") /\ (GotError \/ thrown # NoError)

\* The failure paths of getJobById: no id, a non-2xx response, an empty
\* document, or an exception caught.
JobFailed ==
    Done("getJobById")
    /\ (args = "" \/ GotError \/ thrown # NoError
        \/ (body.kind = "json" /\ body.value = Null))

(* C7: every failure path of searchJobs yields hits [], total 0 and an      *)
(* error that is a non-empty string; every failure path of getJobById       *)
(* yields a record whose error is a non-empty string.                       *)
C7_FailuresCarryMessage ==
    /\ SearchFailed =>
          /\ HasField("hits") /\ Field("hits") = Arr(<<>>)
          /\ HasField("total") /\ Field("total") = Num(0)
          /\ HasField("error") /\ IsNonEmptyString(Field("error"))
    /\ JobFailed => HasField("error") /\ IsNonEmptyString(Field("error"))

\* A search answered 400 with a JSON body that carries no message has failed.
C7_Witness ==
    /\ SearchFailed /\ GotError
    /\ body = JsonBody(Obj([message |-> Str("")]))

\* Every message the status-code table can produce.
StatusTableMessages ==
    {getErrorMessageForStatus(status, id) : status \in 100..599, id \in JobIds}

(* C8: on a network-level failure searchJobs and getJobById report a        *)
(* network-error message that no entry of the status-code table produces:   *)
(* getJobById its fixed network-error message, searchJobs the message of    *)
(* the failure itself.                                                      *)
C8_NetworkErrorDistinct ==
    (NetworkFailure /\ fn \in {"searchJobs", "getJobById"}) =>
        /\ HasField("error") /\ IsNonEmptyString(Field("error"))
        /\ Field("error").s \notin StatusTableMessages
        /\ fn = "getJobById" => Field("error").s = "Network error when fetching job details"
        /\ fn = "searchJobs" => Field("error").s = thrown.message

\* A getJobById call whose fetch rejected has finished.
C8_Witness == Done("getJobById") /\ NetworkFailure /\ thrown \in FetchErrors

\* The JSON error body parsed and carries a message.
BodyMessage ==
    IF body.kind = "json" /\ body.value.t = "object" /\ "message" \in DOMAIN body.value.fields
       /\ IsNonEmptyString(body.value.fields["message"])
    THEN body.value.fields["message"].s
    ELSE ""

(* C9 as claimed: for a non-2xx search response the error is the message of *)
(* the JSON error body when it parses and carries one, and in every other   *)
(* case the status-code-table message for the status.                       *)
C9_Original ==
    (Done("searchJobs") /\ GotError) =>
        /\ HasField("error")
        /\ Field("error") = Str(IF BodyMessage # "" THEN BodyMessage
                                ELSE DocumentedStatusMessage(response.status, ""))

(* C9 as amended: for a non-2xx search response with a JSON content type    *)
(* the error is the message of the body when it parses and carries one,     *)
(* and otherwise the generic "API error: <status>"; only a response         *)
(* without a JSON content type gets the status-code-table message.          *)
C9_ErrorMessageSource ==
    (Done("searchJobs") /\ GotError) =>
        /\ HasField("error")
        /\ Field("error") =
              Str(IF response.contentType \in JsonContentTypes
                  THEN (IF BodyMessage # "" THEN BodyMessage
                        ELSE "API error: " \o NumberToString(response.status))
                  ELSE DocumentedStatusMessage(response.status, ""))

\* A search answered 404 with a JSON content type and a body that is not
\* JSON has finished.
C9_Witness ==
    /\ Done("searchJobs") /\ GotError
    /\ response.status = 404
    /\ response.contentType \in JsonContentTypes
    /\ body = MalformedBody

(* C10: the status-code table maps 400, 404 (with the identifier when one   *)
(* is given), 429 and 500 to their fixed messages and every other status s  *)
(* to the generic message ending in s; every non-2xx response of getJobById *)
(* is reported with the table message for its status, and so is every       *)
(* non-2xx search response without a JSON content type.                     *)
C10_StatusTable ==
    /\ (Done("getJobById") /\ GotError) =>
          /\ result.value = Obj([error  |-> Str(DocumentedStatusMessage(response.status, args)),
                                 status |-> Num(response.status)])
          /\ response.status \notin {400, 404, 429, 500} =>
                /\ StartsWith(Field("error").s, "HTTP Error: ")
                /\ ParseInt(SubSeq(Field("error").s, 13, Len(Field("error").s)))
                      = <<response.status>>
          /\ response.status = 404 => Includes(Field("error").s, args)
    /\ (Done("searchJobs") /\ GotError /\ response.contentType \notin JsonContentTypes) =>
          Field("error") = Str(DocumentedStatusMessage(response.status, ""))

\* A getJobById call answered 429 has finished.
C10_Witness == Done("getJobById") /\ GotError /\ response.status = 429

(* C11: for every non-empty identifier id, a 404 response to getJobById(id) *)
(* resolves to an error record whose message contains id.                   *)
C11_MissingAdNamesId ==
    (Done("getJobById") /\ GotError /\ response.status = 404 /\ args # "") =>
        /\ HasField("error")
        /\ Field("error").t = "string"
        /\ Includes(Field("error").s, args)

\* getJobById("xyz") answered 404 has finished.
C11_Witness == Done("getJobById") /\ GotError /\ response.status = 404 /\ args = "xyz"

\* The record getJobById resolves to for an empty response.
EmptyResponseRecord == Obj([error |-> Str("Empty response from API")])

(* C12: getJobById resolves to the raw job document or to an error record;  *)
(* a 2xx response whose body is empty (no content) or absent (the document  *)
(* null) resolves to the "empty response" error record, which differs from  *)
(* the record of every non-2xx response and from the record of a transport  *)
(* failure.                                                                 *)
C12_EmptyBodyIsEmptyResponse ==
    Done("getJobById") =>
        /\ Resolved /\ result.value.t = "object"
        /\ (GotOk /\ body.kind = "json" /\ body.value # Null) => result.value = body.value
        /\ (GotOk /\ (body = EmptyBody \/ body = JsonBody(Null))) =>
              result.value = EmptyResponseRecord
        /\ GotError => result.value # EmptyResponseRecord
        /\ NetworkFailure => result.value # EmptyResponseRecord

\* The three outcomes of a completed search, read off its result.
SearchIsSuccess == HasField("hits") /\ Field("hits") # Arr(<<>>) /\ ~HasField("error")
SearchIsEmptySuccess == HasField("hits") /\ Field("hits") = Arr(<<>>) /\ ~HasField("error")
SearchIsError == HasField("hits") /\ Field("hits") = Arr(<<>>) /\ HasField("error")

\* The document of a 2xx response carries no hits: none at all, or an empty list.
ZeroHitsDocument ==
    /\ body.kind = "json" /\ body.value.t = "object"
    /\ "hits" \in DOMAIN body.value.fields => body.value.fields["hits"] = Arr(<<>>)

(* C13: every completed search is exactly one of success (hits, no error),  *)
(* empty-success (no hits, no error) and error (an error, no hits), and it  *)
(* is an error exactly when the call failed; a 2xx response whose document  *)
(* has no hits resolves to hits = [] without an error field.                *)
C13_ThreeOutcomes ==
    Done("searchJobs") =>
        /\ Cardinality({i \in 1..3 : <<SearchIsSuccess, SearchIsEmptySuccess, SearchIsError>>[i]}) = 1
        /\ SearchIsError <=> SearchFailed
        /\ (GotOk /\ ZeroHitsDocument) => SearchIsEmptySuccess

\* A search answered 200 with a document of zero hits has finished.
C13_Witness ==
    /\ Done("searchJobs") /\ GotOk
    /\ body = JsonBody(Obj([hits |-> Arr(<<>>), total |-> Num(0)]))

----------------------------------------------------------------------------
(* The optional parameters of the query string.                            *)

\* The string fields that are trimmed, and the name each has on the wire.
TrimmedFields == {"q", "municipality", "region", "country", "occupationField",
                  "occupationGroup", "employer", "excludeSource"}

ParamName(f) ==
    CASE f = "occupationField" -> "occupation-field"
      [] f = "occupationGroup" -> "occupation-group"
      [] f = "excludeSource"   -> "exclude_source"
      [] f = "publishedAfter"  -> "published-after"
      [] OTHER                 -> f

C15_PaginationAlwaysPresent ==
    SearchSent =>
        LET wire == WirePairs(url)
        IN  /\ Len(ValuesOf(wire, "limit")) = 1
            /\ Len(ValuesOf(wire, "offset")) = 1
            /\ "limit" \notin DOMAIN args => ValuesOf(wire, "limit") = <<"20">>
            /\ "offset" \notin DOMAIN args => ValuesOf(wire, "offset") = <<"0">>

\* A call that supplies other fields, but neither limit nor offset, has been sent.
C15_Witness ==
    /\ SearchSent
    /\ DOMAIN args = {"q", "sort"}

(* C16: the remote parameter is in the query string, with the value "true", *)
(* exactly when the remote option is truthy, and likewise abroad; no query  *)
(* string carries remote=false or abroad=false.                             *)
C16_FlagsOnlyWhenTrue ==
    SearchSent =>
        LET wire == WirePairs(url)
        IN  \A f \in {"remote", "abroad"} :
               /\ ValuesOf(wire, f) = (IF Option(args, f) THEN <<"true">> ELSE <<>>)
               /\ \A i \in 1..Len(wire) : wire[i] # <<f, "false">>

\* A call with remote true and abroad false has been sent.
C16_Witness ==
    /\ SearchSent
    /\ DOMAIN args = {"remote", "abroad"}
    /\ args["remote"] /\ ~args["abroad"]

\* The geographic parameter of field f carries the text, and nothing else.
SentAs(wire, f, text) == ValuesOf(wire, ParamName(f)) = <<text>>

(* C17 as claimed: every municipality value other than the exact string     *)
(* "Stockholm", and every region and country value, is sent as its trimmed  *)
(* text, unchanged (a value without text is not sent).                      *)
C17_Original ==
    SearchSent =>
        LET wire == WirePairs(url)
        IN  \A f \in {"municipality", "region", "country"} :
               LET given   == Option(args, f)
                   trimmed == TrimEnd(TrimStart(given))
               IN  (trimmed # "" /\ ~(f = "municipality" /\ given = "Stockholm")) =>
                      SentAs(wire, f, trimmed)

(* C17 as amended: every municipality value whose trimmed text is other     *)
(* than "Stockholm" (concept identifier, numeric code or free text alike),  *)
(* and every region and country value, is sent as its trimmed text,         *)
(* unchanged; a municipality that trims to "Stockholm" is sent as 0180.     *)
C17_GeographyPassedThrough ==
    SearchSent =>
        LET wire == WirePairs(url)
        IN  \A f \in {"municipality", "region", "country"} :
               LET given   == Option(args, f)
                   trimmed == TrimEnd(TrimStart(given))
               IN  /\ (trimmed # "" /\ ~(f = "municipality" /\ trimmed = "Stockholm")) =>
                      SentAs(wire, f, trimmed)
                   /\ (f = "municipality" /\ trimmed = "Stockholm") => SentAs(wire, f, "0180")

\* A call with a concept identifier for the municipality and a negated
\* country has been sent.
C17_Witness ==
    /\ SearchSent
    /\ DOMAIN args = {"municipality", "country"}
    /\ args["municipality"] = "tfRE_hXa_eq7"
    /\ args["country"] = "-i46j_HmG_v64"

(* C18: building the query string never raises: for every options object   *)
(* whose publishedAfter is a string or left out, a string that does not     *)
(* parse as a date included, the query-building step completes and          *)
(* produces a string, which is sent.                                        *)
C18_BuilderNeverRaises ==
    (fn = "searchJobs" /\ pc # "idle" /\ Option(args, "publishedAfter").t = "string") =>
        /\ thrown = NoError
        /\ fetches = 1
        /\ StartsWith(url, SearchEndpoint)

\* YYYY-MM-DDTHH:mm:ss.sssZ, or the same without the fraction.
IsIsoTimestamp(v) ==
    /\ Len(v) \in {20, 24}
    /\ AllDigits(SubSeq(v, 1, 4)) /\ SubSeq(v, 5, 5) = "-"
    /\ AllDigits(SubSeq(v, 6, 7)) /\ SubSeq(v, 8, 8) = "-"
    /\ AllDigits(SubSeq(v, 9, 10)) /\ SubSeq(v, 11, 11) = "T"
    /\ AllDigits(SubSeq(v, 12, 13)) /\ SubSeq(v, 14, 14) = ":"
    /\ AllDigits(SubSeq(v, 15, 16)) /\ SubSeq(v, 17, 17) = ":"
    /\ AllDigits(SubSeq(v, 18, 19))
    /\ Len(v) = 24 => SubSeq(v, 20, 20) = "." /\ AllDigits(SubSeq(v, 21, 23))
    /\ SubSeq(v, Len(v), Len(v)) = "Z"

(* C19: when a publishedAfter filter is supplied and sent, the              *)
(* published-after parameter is a complete ISO-8601 timestamp ending in     *)
(* "Z", and a string is sent as the Date of the instant it denotes is:      *)
(* the forms of 1 January 2025, 00:00 UTC, all give the same value.         *)
C19_PublishedAfterIsIsoUtc ==
    (SearchSent /\ "publishedAfter" \in DOMAIN args /\ args["publishedAfter"] # Str("")) =>
        LET given == args["publishedAfter"]
            sent  == ValuesOf(WirePairs(url), "published-after")
            asDate == IF given.t = "string" THEN DateObject(DateParse(given.s)) ELSE given
        IN  /\ Len(sent) = 1
            /\ IsIsoTimestamp(sent[1])
            /\ formatPublishedAfterDate(asDate) = Returns(sent[1])
            /\ asDate = DateObject(<<20089, 0>>) => sent[1] = "2025-01-01T00:00:00.000Z"

\* A call with a publishedAfter of a date alone, as a string, has been sent.
C19_Witness ==
    /\ SearchSent
    /\ "publishedAfter" \in DOMAIN args
    /\ args["publishedAfter"] = Str("2025-01-01")

----------------------------------------------------------------------------
(* The logo probe.                                                         *)

\* The probe's response reports no content-length: the header is missing or
\* has no text.
NoLengthReported == response.contentLength \in {Null, Str("")}

\* The length the probe's response reports is above the threshold.
LengthAboveThreshold ==
    /\ response.contentLength.t = "string"
    /\ AllDigits(response.contentLength.s)
    /\ DigitsValue(response.contentLength.s) > 100

(* C20: isValidLogo resolves to true exactly when the HEAD probe's response *)
(* is successful, its content-type starts with image/, and either no        *)
(* content-length is reported or the reported length is above 100 bytes;    *)
(* image/png without a content-length is valid, image/png with a            *)
(* content-length of 43 is not, and neither is a missing URL or a failed    *)
(* probe.                                                                   *)
C20_LogoValidity ==
    Done("isValidLogo") =>
        LET valid == Resolved /\ result.value = Bool(TRUE)
        IN  /\ args = Null => ~valid /\ fetches = 0
            /\ NetworkFailure => ~valid
            /\ GotResponse =>
                  /\ args.t = "string" /\ url = args.s
                  /\ valid <=> /\ response.status \in 200..299
                                /\ response.contentType.t = "string"
                                /\ StartsWith(response.contentType.s, "image/")
                                /\ (NoLengthReported \/ LengthAboveThreshold)
                  /\ response = Response(200, Str("image/png"), Null) => valid
                  /\ response = Response(200, Str("image/png"), Str("43")) => ~valid

\* A probe answered 200, image/png, with a content-length of 43 has finished.
C20_Witness ==
    /\ Done("isValidLogo")
    /\ response = Response(200, Str("image/png"), Str("43"))

----------------------------------------------------------------------------
(* The client as a whole.                                                  *)

(* C21: getJobLogoUrl is deterministic and makes no network request: an     *)
(* identifier always yields the URL <base>/ad/<id>/logo, distinct           *)
(* identifiers yield distinct URLs, and a missing identifier yields null.   *)
C21_LogoUrlDerived ==
    Done("getJobLogoUrl") =>
        /\ fetches = 0 /\ url = "" /\ response = NoResponse
        /\ result.kind = "returned"
        /\ args = "" => result.value = Null
        /\ args # "" =>
              /\ result.value = Str("https://links.api.jobtechdev.se/ad/" \o args \o "/logo")
              /\ \A id \in JobIds : id # args => getJobLogoUrl(id) # result.value

\* getJobLogoUrl has returned for an identifier, and another identifier exists.
C21_Witness == Done("getJobLogoUrl") /\ args = "24680135" /\ "xyz" \in JobIds

(* C22: there is no retry: a call of searchJobs, getJobById or isValidLogo  *)
(* makes at most one HTTP request, and a call whose request failed (no      *)
(* response, or a response that is not 2xx) has made exactly one and, once  *)
(* finished, has returned its error outcome.                                *)
C22_NoRetry ==
    /\ fetches \in {0, 1}
    /\ (GotResponse \/ thrown \in FetchErrors) => fetches = 1
    /\ (NetworkFailure /\ fn \in {"searchJobs", "getJobById"}) =>
          HasField("error") /\ IsNonEmptyString(Field("error"))
    /\ (NetworkFailure /\ fn = "isValidLogo") => result.value = Bool(FALSE)
    /\ (pc = "done" /\ GotError /\ fn \in {"searchJobs", "getJobById"}) => HasField("error")

\* A logo probe whose one request was rejected has finished.
C22_Witness == Done("isValidLogo") /\ NetworkFailure /\ fetches = 1

----------------------------------------------------------------------------
(* SearchPage of src/pages/search.js: the state of the page, the effect     *)
(* that runs fetchJobs when router.query changes, and the completion of     *)
(* each searchAllJobs call fetchJobs awaits.                                *)

jobsPerPage == 15

\* The parameters that make the page drop its jobs when they change.
CoreParams == {"q", "municipality", "remote", "occupationField", "position", "useApis"}

\* router.query[name]: a string, or undefined when the route has no such
\* parameter.  A query is a function from the names it has to their text.
QueryParam(query, name) == IF name \in DOMAIN query THEN Str(query[name]) ELSE Undefined

\* parseInt(router.query.page || '1', 10)
currentPage(query) == ParseInt(OrElse(QueryParam(query, "page"), Str("1")).s)

\* The arguments fetchJobs passes to searchAllJobs, lines 57-78: those the
\* routes of the model vary.
FetchJobsArgs(query) ==
    [q      |-> OrElse(QueryParam(query, "q"), Str("")).s,
     limit  |-> jobsPerPage,
     offset |-> IF currentPage(query) = NaN THEN NaN
                ELSE <<(currentPage(query)[1] - 1) * jobsPerPage>>]

\* The condition of the first effect, lines 34-41.
CoreParamsChanged(query, params) ==
    \E name \in CoreParams : QueryParam(query, name) # QueryParam(params, name)

\* Number(x) || 0 for the values a total takes.
NumberOrZero(x) ==
    IF x.t = "number" THEN x.n
    ELSE IF x.t = "string" /\ AllDigits(x.s) THEN DigitsValue(x.s)
    ELSE 0

\* The initial value of totalJobs, lines 16-22.
InitialTotal(initialResults) ==
    LET total == GetProperty(initialResults, "total").v
    IN  IF total.t = "object" /\ GetProperty(total, "value").v # Undefined
        THEN GetProperty(total, "value").v.n
        ELSE IF total.t = "number" THEN total.n
        ELSE 0

\* The total fetchJobs sets, lines 93-97.
FetchedTotal(data) ==
    LET total == GetProperty(data, "total").v
    IN  IF total.t = "object" /\ GetProperty(total, "value").v # Undefined
        THEN NumberOrZero(GetProperty(total, "value").v)
        ELSE NumberOrZero(total)

\* What the page shows: the four states fetchJobs sets together.
Shown(j, t, e, a) == [jobs |-> j, totalJobs |-> t, error |-> e, apiSources |-> a]

\* The catch of fetchJobs, lines 101-106.
FetchJobsCatch ==
    Shown(Arr(<<>>), 0, Str("Failed to fetch jobs. Please try again later."), Arr(<<>>))

\* FetchJobsSettled that leaves the jobs in place when the result is an error.
FetchJobsSettledKeepsJobs(outcome) ==
    IF ~outcome.ok \/ outcome.v.t # "object" THEN FetchJobsCatch
    ELSE IF Truthy(GetProperty(outcome.v, "error").v)
         THEN [jobs |-> jobs, totalJobs |-> totalJobs,
               error |-> GetProperty(outcome.v, "error").v, apiSources |-> apiSources]
    ELSE IF ~GetProperty(GetProperty(outcome.v, "hits").v, "length").ok THEN FetchJobsCatch
    ELSE [jobs |-> OrElse(GetProperty(outcome.v, "hits").v, Arr(<<>>)),
          totalJobs |-> FetchedTotal(outcome.v), error |-> Null,
          apiSources |-> OrElse(GetProperty(outcome.v, "sources").v, Arr(<<>>))]

\* fetchJobs after its await, lines 80-106: what the page shows once
\* searchAllJobs has settled.  A throw (of the call, of data.error on a
\* result that is no object, of data.hits.length without hits) lands in
\* the catch.
FetchJobsSettled(outcome) ==
    IF ~outcome.ok \/ outcome.v.t # "object" THEN FetchJobsCatch
    ELSE IF Truthy(GetProperty(outcome.v, "error").v)
         THEN Shown(Arr(<<>>), 0, GetProperty(outcome.v, "error").v, Arr(<<>>))
    ELSE IF ~GetProperty(GetProperty(outcome.v, "hits").v, "length").ok THEN FetchJobsCatch
    ELSE Shown(OrElse(GetProperty(outcome.v, "hits").v, Arr(<<>>)),
               FetchedTotal(outcome.v), Null,
               OrElse(GetProperty(outcome.v, "sources").v, Arr(<<>>)))

\* The routes of the model: two searches, one of them also on its second page.
RouteQueries == {[q |-> "java"], [q |-> "java", page |-> "2"], [q |-> "python"]}

\* What searchAllJobs settles to: results with hits, with a total in either
\* form, with an error, without hits, and a rejection.
SearchAllOutcomes ==
    {Returns(Obj([hits |-> Arr(<<Job1, Job2>>), total |-> Num(42),
                  sources |-> Arr(<<Str("jobsearch")>>)])),
     Returns(Obj([hits |-> Arr(<<Job2>>), total |-> Obj([value |-> Num(1)]),
                  sources |-> Arr(<<Str("jobad")>>)])),
     Returns(Obj([hits |-> Arr(<<>>), total |-> Num(0), error |-> Str("HTTP Error: 503"),
                  sources |-> Arr(<<>>)])),
     Returns(Obj([total |-> Num(3)])),
     Throws("TypeError", "Failed to fetch")}

\* The initialResults prop the server rendered.
InitialResults ==
    {Obj([hits |-> Arr(<<Job1>>), total |-> Num(1), sources |-> Arr(<<Str("jobsearch")>>)]),
     Obj([hits |-> Arr(<<>>), total |-> Num(0), error |-> Str("HTTP Error: 500"),
          sources |-> Arr(<<>>)])}

\* fetchJobs up to its await, lines 53-78: loading, no error, one more call.
FetchJobsStarts(query) ==
    /\ loading' = TRUE
    /\ pageError' = Null
    /\ requests' = Append(requests, [args |-> FetchJobsArgs(query), outcome |-> Pending])

\* The first render, lines 10-22, and the two effects after it.
Mount(initialResults, query) ==
    /\ ~mounted
    /\ mounted' = TRUE
    /\ routerQuery' = query
    /\ searchParams' = query
    /\ jobs' = IF CoreParamsChanged(query, query) THEN Arr(<<>>)
               ELSE OrElse(GetProperty(initialResults, "hits").v, Arr(<<>>))
    /\ apiSources' = OrElse(GetProperty(initialResults, "sources").v, Arr(<<>>))
    /\ totalJobs' = InitialTotal(initialResults)
    /\ FetchJobsStarts(query)
    /\ UNCHANGED <<clientVars, formVars, cardVars, calls>>

\* The route changes: router.query is another query, the searchParams prop
\* is the one it was or the one rendered for the new route, and both
\* effects run.
RouteChange(query, params) ==
    /\ mounted
    /\ query # routerQuery
    /\ Len(requests) < MaxRequests
    /\ routerQuery' = query
    /\ searchParams' = params
    /\ jobs' = IF CoreParamsChanged(query, params) THEN Arr(<<>>) ELSE jobs
    /\ FetchJobsStarts(query)
    /\ UNCHANGED <<mounted, totalJobs, apiSources>>
    /\ UNCHANGED <<clientVars, formVars, cardVars, calls>>

\* The searchAllJobs call of request i settles: fetchJobs runs from its
\* await to its end.
SearchAllSettles(i, outcome) ==
    /\ mounted
    /\ i \in DOMAIN requests
    /\ requests[i].outcome = Pending
    /\ requests' = [requests EXCEPT ![i].outcome = outcome]
    /\ LET shown == FetchJobsSettled(outcome)
       IN  /\ jobs' = shown.jobs
           /\ totalJobs' = shown.totalJobs
           /\ pageError' = shown.error
           /\ apiSources' = shown.apiSources
    /\ loading' = FALSE
    /\ UNCHANGED <<mounted, routerQuery, searchParams>>
    /\ UNCHANGED <<clientVars, formVars, cardVars, calls>>

NextPage ==
    \/ ~mounted /\ \E initialResults \in InitialResults, query \in RouteQueries :
                       Mount(initialResults, query)
    \/ mounted /\ \E query \in RouteQueries : \E params \in {searchParams, query} :
                      RouteChange(query, params)
    \/ mounted /\ \E i \in 1..MaxRequests : \E outcome \in SearchAllOutcomes :
                      SearchAllSettles(i, outcome)

\* One SearchPage, from its first render on.
SpecPage == Init /\ [][NextPage]_vars

\* Every request fetchJobs issued has completed.
AllRequestsCompleted ==
    /\ requests # <<>>
    /\ \A i \in DOMAIN requests : requests[i].outcome # Pending

\* C24: once all search requests of the page have completed, the jobs,
\* totalJobs and error it displays are those of the response to the most
\* recent route query; the response to a superseded request is not applied.
C24_StaleResultsDiscarded ==
    AllRequestsCompleted =>
        LET latest == FetchJobsSettled(requests[Len(requests)].outcome)
        IN  /\ jobs = latest.jobs
            /\ totalJobs = latest.totalJobs
            /\ pageError = latest.error

\* C28: in every state of the page a non-null error comes with an empty
\* result: no jobs, a total of 0 and no API sources.
C28_ErrorMeansEmptyResult ==
    pageError # Null =>
        /\ jobs = Arr(<<>>)
        /\ totalJobs = 0
        /\ apiSources = Arr(<<>>)

\* A search that brought jobs has completed, and the page shows the error
\* of another one.
C28_Witness ==
    /\ pageError = Str("HTTP Error: 503")
    /\ jobs = Arr(<<>>)
    /\ \E i \in DOMAIN requests :
          /\ requests[i].outcome # Pending
          /\ FetchJobsSettled(requests[i].outcome).jobs # Arr(<<>>)

\* C29: on a mounted page loading is true whenever a request issued by
\* fetchJobs has not completed, and false once all of them have.
C29_LoadingTracksRequests ==
    mounted => (loading <=> \E i \in DOMAIN requests : requests[i].outcome = Pending)

----------------------------------------------------------------------------
(* SearchForm of src/components/SearchForm.js: the typeahead effect with    *)
(* its debounce timer, the getTypeaheadSuggestions calls it makes, and      *)
(* handleSubmit.                                                            *)

\* A timer fires for a getTypeaheadSuggestions call at most this many times.
MaxTypeahead == 2

\* String.prototype.toLowerCase for the letters of the location names.
UpperLetters == <<"A","B","C","D","E","F","G","H","I","J","K","L","M","N","O","P","Q",
                  "R","S","T","U","V","W","X","Y","Z","Å","Ä","Ö">>
LowerLetters == <<"a","b","c","d","e","f","g","h","i","j","k","l","m","n","o","p","q",
                  "r","s","t","u","v","w","x","y","z","å","ä","ö">>
ToLowerChar(c) ==
    IF \E i \in DOMAIN UpperLetters : UpperLetters[i] = c
    THEN LowerLetters[CHOOSE i \in DOMAIN UpperLetters : UpperLetters[i] = c]
    ELSE c
RECURSIVE ToLowerCase(_)
ToLowerCase(s) ==
    IF s = "" THEN "" ELSE ToLowerChar(SubSeq(s, 1, 1)) \o ToLowerCase(SubSeq(s, 2, Len(s)))

\* getPopularLocations()
PopularLocations ==
    <<[name |-> "Stockholm", conceptId |-> Str("tfRE_hXa_eq7"), code |-> Str("0180")],
      [name |-> "Göteborg",  conceptId |-> Null, code |-> Str("1480")],
      [name |-> "Malmö",     conceptId |-> Null, code |-> Str("1280")],
      [name |-> "Uppsala",   conceptId |-> Null, code |-> Str("0380")],
      [name |-> "Linköping", conceptId |-> Null, code |-> Str("0580")],
      [name |-> "Örebro",    conceptId |-> Null, code |-> Str("1880")],
      [name |-> "Umeå",      conceptId |-> Null, code |-> Str("2480")],
      [name |-> "Luleå",     conceptId |-> Null, code |-> Str("2580")]>>

\* The municipality handleSubmit sends for the text of the location field,
\* lines 107-135.
MunicipalityOf(text) ==
    LET matches == {i \in DOMAIN PopularLocations :
                      ToLowerCase(PopularLocations[i].name) = ToLowerCase(Trim(text))}
    IN  IF matches = {} THEN Trim(text)
        ELSE LET matchedLocation ==
                     PopularLocations[CHOOSE i \in matches : \A j \in matches : i <= j]
             IN  IF matchedLocation.name = "Stockholm" THEN matchedLocation.code.s
                 ELSE IF Truthy(matchedLocation.conceptId) THEN matchedLocation.conceptId.s
                 ELSE IF Truthy(matchedLocation.code) THEN matchedLocation.code.s
                 ELSE Trim(text)

\* radius.toString()
RadiusToString(r) == IF r.t = "number" THEN NumberToString(r.n) ELSE r.s

\* The params object handleSubmit builds, lines 92-149: a function from
\* the names it has to their values.
SubmitParams ==
    LET place == IF useCurrentLocation /\ Truthy(position) THEN "position"
                 ELSE IF Trim(location) # "" THEN "municipality"
                 ELSE "none"
        names == (IF Trim(q) # "" THEN {"q"} ELSE {})
                 \cup (IF place = "position" THEN {"position", "positionRadius"} ELSE {})
                 \cup (IF place = "municipality" THEN {"municipality"} ELSE {})
                 \cup (IF isRemote THEN {"remote"} ELSE {})
                 \cup (IF isAbroad THEN {"abroad"} ELSE {})
                 \cup {"useApis"}
    IN  [name \in names |->
            CASE name = "q"              -> Trim(q)
              [] name = "position"       -> position.s
              [] name = "positionRadius" -> RadiusToString(radius)
              [] name = "municipality"   -> MunicipalityOf(location)
              [] name = "remote"         -> "true"
              [] name = "abroad"         -> "true"
              [] name = "useApis"        -> apiChoice]

\* The disabled attribute of the submit button, lines 266-269.
SubmitDisabled ==
    (Trim(q) = "" /\ Trim(location) = "" /\ ~useCurrentLocation) /\ ~isRemote /\ ~isAbroad

\* The texts typed into the query field and into the location field, and
\* the choices of the API select.
QueryTexts == {"", "j", " j", "ja", "py"}
LocationTexts == {"", "stockholm ", "Uppsala", "Lund"}
ApiChoices == {"both", "jobsearch"}

\* The initialValues prop: none on the start page, router.query on the
\* search page.
FormInitialValues ==
    {[name \in {} |-> ""],
     [name \in {"q", "useApis"} |-> IF name = "q" THEN "ja" ELSE "jobsearch"],
     [name \in {"municipality", "remote"} |-> IF name = "remote" THEN "true" ELSE "0180"]}

\* What getTypeaheadSuggestions settles to for a text: the completions of
\* the text, or a rejection.
Vocabulary == <<"java", "python">>
Completions(text) ==
    LET Matching(word) == StartsWith(word, ToLowerCase(Trim(text)))
        Suggestion(word) == Obj([value |-> Str(word)])
        words == SelectSeq(Vocabulary, Matching)
    IN  Arr([i \in DOMAIN words |-> Suggestion(words[i])])
TypeaheadOutcomes(text) ==
    {Returns(Completions(text)), Throws("Error", "Failed to fetch suggestions")}

\* EffectCleanup of an effect that returns no cleanup: its timer stays.
EffectCleanupMissing == timers

\* The cleanup of the effect that ran for the present q and apiChoice,
\* line 51: clearTimeout of the timer that effect set.
EffectCleanup == timers \ {[q |-> q, apiChoice |-> apiChoice]}

\* The effect of lines 27-52, run for the values q and apiChoice have
\* taken, after the cleanup of the effect that ran for the values before.
SuggestionEffect(text, choice) ==
    IF Trim(text) = "" \/ Len(Trim(text)) < 2
    THEN /\ suggestions' = Arr(<<>>)
         /\ timers' = EffectCleanup
    ELSE /\ timers' = EffectCleanup \cup {[q |-> text, apiChoice |-> choice]}
         /\ UNCHANGED suggestions

\* The first render, lines 8-20, and the effect after it.
FormMount(initialValues) ==
    /\ ~formMounted
    /\ formMounted' = TRUE
    /\ q' = OrElse(QueryParam(initialValues, "q"), Str("")).s
    /\ location' = OrElse(QueryParam(initialValues, "municipality"), Str("")).s
    /\ isRemote' = (QueryParam(initialValues, "remote") = Str("true"))
    /\ isAbroad' = (QueryParam(initialValues, "abroad") = Str("true"))
    /\ useCurrentLocation' = FALSE
    /\ position' = OrElse(QueryParam(initialValues, "position"), Null)
    /\ radius' = OrElse(QueryParam(initialValues, "positionRadius"), Num(10))
    /\ apiChoice' = OrElse(QueryParam(initialValues, "useApis"), Str("both")).s
    /\ SuggestionEffect(q', apiChoice')
    /\ UNCHANGED <<isLoading, typeahead, pushed>>
    /\ UNCHANGED <<clientVars, pageVars, cardVars, calls>>

\* onChange of the query field, lines 181-184: q changes and the effect
\* runs again.
SetQ(text) ==
    /\ formMounted
    /\ text # q
    /\ q' = text
    /\ SuggestionEffect(text, apiChoice)
    /\ UNCHANGED <<formMounted, location, isRemote, isAbroad, useCurrentLocation, position,
                   radius, apiChoice, isLoading, typeahead, pushed>>
    /\ UNCHANGED <<clientVars, pageVars, cardVars, calls>>

\* onChange of the API select, line 305: apiChoice changes and the effect
\* runs again.
SetApiChoice(choice) ==
    /\ formMounted
    /\ choice # apiChoice
    /\ apiChoice' = choice
    /\ SuggestionEffect(q, choice)
    /\ UNCHANGED <<formMounted, q, location, isRemote, isAbroad, useCurrentLocation, position,
                   radius, isLoading, typeahead, pushed>>
    /\ UNCHANGED <<clientVars, pageVars, cardVars, calls>>

\* handleSuggestionClick, lines 79-86: q takes the value of the suggestion;
\* the effect runs again when that is another value.
HandleSuggestionClick(suggestion) ==
    /\ formMounted
    /\ q' = GetProperty(suggestion, "value").v.s
    /\ IF q' # q THEN SuggestionEffect(q', apiChoice) ELSE UNCHANGED <<suggestions, timers>>
    /\ UNCHANGED <<formMounted, location, isRemote, isAbroad, useCurrentLocation, position,
                   radius, apiChoice, isLoading, typeahead, pushed>>
    /\ UNCHANGED <<clientVars, pageVars, cardVars, calls>>

\* A debounce timer fires, lines 47-49: fetchSuggestions runs up to its
\* await, with the q and apiChoice of the render that set the timer.
TimerFires(timer) ==
    /\ timer \in timers
    /\ Len(typeahead) < MaxTypeahead
    /\ timers' = timers \ {timer}
    /\ isLoading' = TRUE
    /\ typeahead' = Append(typeahead, [q |-> timer.q, apiChoice |-> timer.apiChoice,
                                         outcome |-> Pending])
    /\ UNCHANGED <<formMounted, q, location, isRemote, isAbroad, useCurrentLocation, position,
                   radius, apiChoice, suggestions, pushed>>
    /\ UNCHANGED <<clientVars, pageVars, cardVars, calls>>

\* The getTypeaheadSuggestions call of request i settles: fetchSuggestions
\* runs from its await to its end, lines 36-43.
TypeaheadSettles(i, outcome) ==
    /\ i \in DOMAIN typeahead
    /\ typeahead[i].outcome = Pending
    /\ typeahead' = [typeahead EXCEPT ![i].outcome = outcome]
    /\ suggestions' = IF outcome.ok THEN outcome.v ELSE Arr(<<>>)
    /\ isLoading' = FALSE
    /\ UNCHANGED <<formMounted, q, location, isRemote, isAbroad, useCurrentLocation, position,
                   radius, apiChoice, timers, pushed>>
    /\ UNCHANGED <<clientVars, pageVars, cardVars, calls>>

\* onChange of the location field, line 235; the field is disabled while
\* the current location is used.
SetLocation(text) ==
    /\ formMounted
    /\ ~useCurrentLocation
    /\ text # location
    /\ location' = text
    /\ UNCHANGED <<formMounted, q, isRemote, isAbroad, useCurrentLocation, position, radius,
                   apiChoice, suggestions, isLoading, timers, typeahead, pushed>>
    /\ UNCHANGED <<clientVars, pageVars, cardVars, calls>>

\* onChange of the two check boxes, lines 282 and 292.
SetIsRemote(checked) ==
    /\ formMounted
    /\ checked # isRemote
    /\ isRemote' = checked
    /\ UNCHANGED <<formMounted, q, location, isAbroad, useCurrentLocation, position, radius,
                   apiChoice, suggestions, isLoading, timers, typeahead, pushed>>
    /\ UNCHANGED <<clientVars, pageVars, cardVars, calls>>

SetIsAbroad(checked) ==
    /\ formMounted
    /\ checked # isAbroad
    /\ isAbroad' = checked
    /\ UNCHANGED <<formMounted, q, location, isRemote, useCurrentLocation, position, radius,
                   apiChoice, suggestions, isLoading, timers, typeahead, pushed>>
    /\ UNCHANGED <<clientVars, pageVars, cardVars, calls>>

\* The success callback of getCurrentPosition, lines 58-65.
GeolocationSucceeds(coords) ==
    /\ formMounted
    /\ position' = Str(coords)
    /\ useCurrentLocation' = TRUE
    /\ location' = ""
    /\ UNCHANGED <<formMounted, q, isRemote, isAbroad, radius, apiChoice, suggestions,
                   isLoading, timers, typeahead, pushed>>
    /\ UNCHANGED <<clientVars, pageVars, cardVars, calls>>

\* Its error callback, lines 66-70, and the branch without geolocation.
GeolocationFails ==
    /\ formMounted
    /\ useCurrentLocation' = FALSE
    /\ UNCHANGED <<formMounted, q, location, isRemote, isAbroad, position, radius, apiChoice,
                   suggestions, isLoading, timers, typeahead, pushed>>
    /\ UNCHANGED <<clientVars, pageVars, cardVars, calls>>

\* handleSubmit, lines 88-161, for a submit event of the form.
HandleSubmit ==
    /\ formMounted
    /\ LET params == SubmitParams
       IN  pushed' = IF Cardinality(DOMAIN params) > 0
                     THEN <<[pathname |-> "/search", query |-> params]>>
                     ELSE pushed
    /\ UNCHANGED <<formMounted, q, location, isRemote, isAbroad, useCurrentLocation, position,
                   radius, apiChoice, suggestions, isLoading, timers, typeahead>>
    /\ UNCHANGED <<clientVars, pageVars, cardVars, calls>>

\* The typeahead of one SearchForm.
NextForm ==
    \/ ~formMounted /\ \E initialValues \in FormInitialValues : FormMount(initialValues)
    \/ formMounted /\ \E text \in QueryTexts : SetQ(text)
    \/ formMounted /\ \E choice \in ApiChoices : SetApiChoice(choice)
    \/ formMounted /\ \E i \in DOMAIN suggestions.items :
                          HandleSuggestionClick(suggestions.items[i])
    \/ formMounted /\ \E timer \in timers : TimerFires(timer)
    \/ formMounted /\ \E i \in DOMAIN typeahead :
                          \E outcome \in TypeaheadOutcomes(typeahead[i].q) :
                              TypeaheadSettles(i, outcome)

SpecForm == Init /\ [][NextForm]_vars

\* The fields of one SearchForm and its submission.
NextSubmit ==
    \/ ~formMounted /\ \E initialValues \in FormInitialValues : FormMount(initialValues)
    \/ formMounted /\ \E text \in QueryTexts : SetQ(text)
    \/ formMounted /\ \E text \in LocationTexts : SetLocation(text)
    \/ formMounted /\ \E checked \in BOOLEAN : SetIsRemote(checked)
    \/ formMounted /\ \E checked \in BOOLEAN : SetIsAbroad(checked)
    \/ formMounted /\ GeolocationSucceeds("59.33,18.07")
    \/ formMounted /\ GeolocationFails
    \/ formMounted /\ HandleSubmit

SpecSubmit == Init /\ [][NextSubmit]_vars

\* C25: the suggestions the form holds are empty or the result of the
\* request made for the present value of q: a response for an earlier value
\* is not applied after q changed, and the list is empty while the trimmed
\* q has fewer than 2 characters.
C25_StaleSuggestionsDiscarded ==
    \/ suggestions = Arr(<<>>)
    \/ /\ Len(Trim(q)) >= 2
       /\ \E i \in DOMAIN typeahead :
             /\ typeahead[i].q = q
             /\ typeahead[i].outcome = Returns(suggestions)

\* C26: at most one debounce timer is pending, and it is the one set for
\* the present q and apiChoice, so that a timer that fires issues the
\* request for values that were not superseded; no request is issued for a
\* q whose trimmed length is below 2.
C26_Debounced ==
    /\ Cardinality(timers) <= 1
    /\ \A timer \in timers :
          /\ timer = [q |-> q, apiChoice |-> apiChoice]
          /\ Len(Trim(timer.q)) >= 2
    /\ \A i \in DOMAIN typeahead : Len(Trim(typeahead[i].q)) >= 2

\* q changed twice since a request was issued, the second time to a text
\* long enough: the timer of the first change is gone, the one of the
\* second change is pending.
C26_Witness ==
    /\ typeahead # <<>>
    /\ typeahead[1].q # q
    /\ timers = {[q |-> q, apiChoice |-> apiChoice]}
    /\ q = "py"

\* C30: handleSubmit navigates only with a search parameter built from the
\* fields: a submit with an empty query, an empty location, no position
\* and both boxes unchecked, whose only parameter is the API choice,
\* causes no navigation.
C30_NoNavigationWithoutParameter ==
    \A i \in DOMAIN pushed : DOMAIN pushed[i].query # {"useApis"}

----------------------------------------------------------------------------
(* JobCard of src/components/JobCard.js: the logo it shows, the effect      *)
(* that probes the logo of its job, and the error handler of the image.     *)

\* checkAndSetLogo calls isValidLogo at most this many times on one card.
MaxProbes == 3

\* The local image a card starts with and falls back to.
FallbackImage == "/file.svg"

\* The job prop: two jobs, and one without an id.
CardJobs == {Job1, Job2, Obj([headline |-> Str("Utvecklare")])}

\* The effect of lines 11-26 for a job: checkAndSetLogo up to its await.
CheckAndSetLogoStarts(newJob) ==
    IF ~Truthy(newJob) \/ ~Truthy(GetProperty(newJob, "id").v)
    THEN UNCHANGED probes
    ELSE probes' = Append(probes, [logoUrl |-> getJobLogoUrl(GetProperty(newJob, "id").v.s),
                                   outcome |-> Pending])

\* The first render, lines 7-9, and the effect after it.
CardMount(newJob) ==
    /\ ~cardMounted
    /\ cardMounted' = TRUE
    /\ job' = newJob
    /\ imgSrc' = FallbackImage
    /\ CheckAndSetLogoStarts(newJob)
    /\ UNCHANGED <<clientVars, pageVars, formVars, calls>>

\* The card is rendered with another job object: the effect runs again.
JobChanges(newJob) ==
    /\ cardMounted
    /\ Len(probes) < MaxProbes
    /\ job' = newJob
    /\ CheckAndSetLogoStarts(newJob)
    /\ UNCHANGED <<cardMounted, imgSrc>>
    /\ UNCHANGED <<clientVars, pageVars, formVars, calls>>

\* The isValidLogo call of probe i resolves: checkAndSetLogo runs from its
\* await to its end, lines 19-22.
ProbeSettles(i, isValid) ==
    /\ cardMounted
    /\ i \in DOMAIN probes
    /\ probes[i].outcome = Pending
    /\ probes' = [probes EXCEPT ![i].outcome = Bool(isValid)]
    /\ imgSrc' = IF isValid THEN probes[i].logoUrl.s ELSE imgSrc
    /\ UNCHANGED <<cardMounted, job>>
    /\ UNCHANGED <<clientVars, pageVars, formVars, calls>>

\* onError of the image, lines 95-97: the logo shown did not load.
ImageError ==
    /\ cardMounted
    /\ imgSrc # FallbackImage
    /\ imgSrc' = FallbackImage
    /\ UNCHANGED <<cardMounted, job, probes>>
    /\ UNCHANGED <<clientVars, pageVars, formVars, calls>>

NextCard ==
    \/ ~cardMounted /\ \E newJob \in CardJobs : CardMount(newJob)
    \/ cardMounted /\ \E newJob \in CardJobs : JobChanges(newJob)
    \/ cardMounted /\ \E i \in DOMAIN probes : \E isValid \in BOOLEAN : ProbeSettles(i, isValid)
    \/ cardMounted /\ ImageError

\* One JobCard, from its first render on.
SpecCard == Init /\ [][NextCard]_vars

\* C27: the image a card shows is the local fallback or the logo URL of
\* the job it renders, and it is that URL only if isValidLogo resolved to
\* true for it.
C27_LogoOfCurrentJob ==
    \/ imgSrc = FallbackImage
    \/ /\ Truthy(job)
       /\ Truthy(GetProperty(job, "id").v)
       /\ Str(imgSrc) = getJobLogoUrl(GetProperty(job, "id").v.s)
       /\ \E i \in DOMAIN probes :
             /\ probes[i].logoUrl = Str(imgSrc)
             /\ probes[i].outcome = Bool(TRUE)

----------------------------------------------------------------------------
(* Concurrent calls of the client: every call of searchJobs, getJobById or  *)
(* isValidLogo runs with its own local variables; calls that wait for their *)
(* fetch or for their body are resumed in any order.                        *)

\* At most this many calls are made.
MaxCalls == 2

\* A call that waits for its fetch, and a call that has settled.
AwaitingFetch(f, a, requestUrl) ==
    [fn |-> f, args |-> a, pc |-> "awaitFetch", url |-> requestUrl, response |-> NoResponse,
     body |-> NoBody, thrown |-> NoError, result |-> Pending]
Settled(f, a, outcome, caught) ==
    [fn |-> f, args |-> a, pc |-> "done", url |-> "", response |-> NoResponse,
     body |-> NoBody, thrown |-> caught, result |-> Settle(outcome)]

\* The function f called with a, up to its await of fetch: lines 15-115,
\* 155-161 and 202-206.
Started(f, a) ==
    CASE f = "searchJobs" ->
           LET params == BuildSearchParams(a)
           IN  IF params.ok THEN AwaitingFetch(f, a, SearchUrl(params.v))
               ELSE Settled(f, a, TryCatch(params, SearchCatch(params)), params)
      [] f = "getJobById" ->
           IF a = "" THEN Settled(f, a, Returns(JobError("Job ID is required")), NoError)
           ELSE AwaitingFetch(f, a, API_BASE_URL \o "/ad/" \o a)
      [] f = "isValidLogo" ->
           IF ~Truthy(a) THEN Settled(f, a, Returns(Bool(FALSE)), NoError)
           ELSE AwaitingFetch(f, a, a.s)

\* The catch block of the function f.
CatchOf(f, error) ==
    CASE f = "searchJobs"  -> SearchCatch(error)
      [] f = "getJobById"  -> JobCatch(error)
      [] f = "isValidLogo" -> LogoCatch(error)

\* The call c after its fetch rejected.
AfterReject(c, error) ==
    [c EXCEPT !.pc = "done", !.thrown = error,
              !.result = Settle(TryCatch(error, CatchOf(c.fn, error)))]

\* The call c after its fetch resolved with r, run on to its next await or
\* to its return; request holds the url and the argument its code reads.
AfterResponse(c, request, r) ==
    LET finished(outcome) == [c EXCEPT !.response = r, !.pc = "done",
                                       !.result = Settle(outcome)]
        awaitsJson == [c EXCEPT !.response = r, !.pc = "awaitJson"]
    IN  CASE c.fn = "searchJobs" ->
               IF ~ResponseOk(r.status) /\ ~IsJsonContentType(r.contentType)
               THEN finished(SearchStatusError(r.status))
               ELSE awaitsJson
          [] c.fn = "getJobById" ->
               IF ~ResponseOk(r.status)
               THEN finished(JobStatusError(r.status, request.args))
               ELSE awaitsJson
          [] c.fn = "isValidLogo" ->
               finished(LogoVerdict(r.status, r.contentType, r.contentLength))

\* The call c after response.json() settled for the body b.
AfterJson(c, request, b) ==
    LET parsed == ResponseJson(b)
        outcome ==
            CASE c.fn = "searchJobs" ->
                   IF ResponseOk(c.response.status)
                   THEN SearchSuccess(parsed, request.url)
                   ELSE SearchJsonError(c.response.status, parsed)
              [] c.fn = "getJobById" -> JobSuccess(parsed)
    IN  [c EXCEPT !.body = b, !.pc = "done",
                  !.thrown = IF outcome.ok THEN NoError ELSE outcome,
                  !.result = Settle(TryCatch(outcome, CatchOf(c.fn, outcome)))]

\* RequestOf for a client that keeps the url and the argument in variables
\* of the module, which every call overwrites when it starts.
RequestOfLatestCall(i) == [url |-> calls[Len(calls)].url, args |-> calls[Len(calls)].args]

\* The url and the argument call i reads when it is resumed: the const url
\* and the parameter of its own invocation.
RequestOf(i) == [url |-> calls[i].url, args |-> calls[i].args]

\* The calls made concurrently and what the service answers them.
ConcurrentSearches == {<<>>, [q |-> " student deltid "], [publishedAfter |-> Str("last week")]}
ConcurrentResponses ==
    {Response(200, Str("application/json"), Null), Response(404, Str("text/html"), Null),
     Response(500, Str("application/json"), Null)}
ConcurrentLogoResponses ==
    {Response(200, Str("image/png"), Str("101")), Response(200, Str("image/png"), Str("43")),
     Response(404, Str("text/html"), Null)}
ConcurrentSearchBodies ==
    {MalformedBody, JsonBody(Obj([hits |-> Arr(<<Job1, Job2>>), total |-> Num(42)]))}
ConcurrentJobBodies == {JsonBody(Null), JsonBody(Job1)}

\* A call is made.
CallStarts(f, a) ==
    /\ Len(calls) < MaxCalls
    /\ calls' = Append(calls, Started(f, a))
    /\ UNCHANGED <<clientVars, pageVars, formVars, cardVars>>

\* The fetch of call i rejects.
CallFetchRejects(i, error) ==
    /\ calls[i].pc = "awaitFetch"
    /\ calls' = [calls EXCEPT ![i] = AfterReject(calls[i], error)]
    /\ UNCHANGED <<clientVars, pageVars, formVars, cardVars>>

\* The fetch of call i resolves with the response r.
CallFetchResolves(i, r) ==
    /\ calls[i].pc = "awaitFetch"
    /\ calls' = [calls EXCEPT ![i] = AfterResponse(calls[i], RequestOf(i), r)]
    /\ UNCHANGED <<clientVars, pageVars, formVars, cardVars>>

\* response.json() of call i settles for the body b.
CallJsonSettles(i, b) ==
    /\ calls[i].pc = "awaitJson"
    /\ calls' = [calls EXCEPT ![i] = AfterJson(calls[i], RequestOf(i), b)]
    /\ UNCHANGED <<clientVars, pageVars, formVars, cardVars>>

NextCalls ==
    \/ \E o \in ConcurrentSearches : CallStarts("searchJobs", o)
    \/ \E id \in JobIds : CallStarts("getJobById", id)
    \/ \E imageUrl \in ImageUrls : CallStarts("isValidLogo", imageUrl)
    \/ \E i \in DOMAIN calls : \E error \in FetchErrors : CallFetchRejects(i, error)
    \/ \E i \in DOMAIN calls :
          /\ calls[i].fn = "isValidLogo"
          /\ \E r \in ConcurrentLogoResponses : CallFetchResolves(i, r)
    \/ \E i \in DOMAIN calls :
          /\ calls[i].fn # "isValidLogo"
          /\ \E r \in ConcurrentResponses : CallFetchResolves(i, r)
    \/ \E i \in DOMAIN calls :
          /\ calls[i].fn = "searchJobs"
          /\ \E b \in ConcurrentSearchBodies : CallJsonSettles(i, b)
    \/ \E i \in DOMAIN calls :
          /\ calls[i].fn = "getJobById"
          /\ \E b \in ConcurrentJobBodies : CallJsonSettles(i, b)

\* Calls of the client made and resumed in any order.
SpecCalls == Init /\ [][NextCalls]_vars

\* What a settled call c resolves to when it runs alone: its function run
\* from its argument through the rejection, the response and the body that
\* c itself received.
ResultAlone(c) ==
    LET started == Started(c.fn, c.args)
        request == [url |-> started.url, args |-> c.args]
        fetched == IF started.pc = "done" THEN started
                   ELSE IF c.response = NoResponse THEN AfterReject(started, c.thrown)
                   ELSE AfterResponse(started, request, c.response)
    IN  IF fetched.pc = "done" THEN fetched.result
        ELSE AfterJson(fetched, request, c.body).result

\* C23: the calls share no state: however concurrent calls of searchJobs,
\* getJobById and isValidLogo are interleaved, each settled call has
\* resolved to the value it resolves to when it runs alone with its own
\* argument and the answer to its own request.
C23_CallsIndependent ==
    \A i \in DOMAIN calls :
        calls[i].pc = "done" => calls[i].result = ResultAlone(calls[i])

\* A searchJobs call waits for the body of its response while a getJobById
\* call made after it has settled already, answered 404 for its own id.
C23_Witness ==
    /\ Len(calls) = 2
    /\ calls[1].fn = "searchJobs" /\ calls[1].pc = "awaitJson"
    /\ calls[2].fn = "getJobById" /\ calls[2].pc = "done"
    /\ calls[2].result = Settle(JobStatusError(404, "xyz"))
====
